---------------------------- MODULE Spec2Model ----------------------------
(***************************************************************************)
(* A model of Argy::CliParser (include/argy.hpp): the argument registry,  *)
(* add(), parse(), get() and has().                                       *)
(*                                                                         *)
(* Text (std::string) is a sequence of one-character strings, so that the *)
(* prefix tests, substr() and the numeric conversions act on characters   *)
(* as the code does.  A Value (std::variant) is a record [tag, v].        *)
(***************************************************************************)
EXTENDS Integers, Sequences, FiniteSets, TLC

(***************************************************************************)
(* Text helpers                                                            *)
(***************************************************************************)

\* CliParser::startsWith (argy.hpp 1035-1037)
startsWith(str, prefix) ==
    /\ Len(str) >= Len(prefix)
    /\ SubSeq(str, 1, Len(prefix)) = prefix

\* std::string::substr(pos): the text from 0-based position pos to the end
substr(str, pos) == SubSeq(str, pos + 1, Len(str))

\* the characters str[from .. to], cut at the end of str
Slice(str, from, to) ==
    LET last == IF to < Len(str) THEN to ELSE Len(str)
    IN  [k \in 1..(last - from + 1) |-> str[from + k - 1]]

\* CliParser::normalizeName (argy.hpp 1058-1062): strips ONE "--" or one "-"
normalizeName(name) ==
    IF startsWith(name, <<"-", "-">>) THEN substr(name, 2)
    ELSE IF startsWith(name, <<"-">>) THEN substr(name, 1)
    ELSE name

DigitChars == <<"0", "1", "2", "3", "4", "5", "6", "7", "8", "9">>

IsDigit(c) == \E d \in 1..10 : DigitChars[d] = c

DigitVal(c) == (CHOOSE d \in 1..10 : DigitChars[d] = c) - 1

\* isspace() of the C locale, restricted to the blank and the tab
IsSpace(c) == c \in {" ", "\t"}

\* position (1-based) of the first character at or after p that is no blank
RECURSIVE SkipSpace(_, _)
SkipSpace(str, p) ==
    IF p <= Len(str) /\ IsSpace(str[p]) THEN SkipSpace(str, p + 1) ELSE p

\* position just after the run of digits that starts at p
RECURSIVE DigitsEnd(_, _)
DigitsEnd(str, p) ==
    IF p <= Len(str) /\ IsDigit(str[p]) THEN DigitsEnd(str, p + 1) ELSE p

\* the digit values of str[from .. to-1]
DigitSeq(str, from, to) == [k \in 1..(to - from) |-> DigitVal(str[from + k - 1])]

RECURSIVE StripLeadingZeros(_)
StripLeadingZeros(ds) ==
    IF ds # <<>> /\ Head(ds) = 0 THEN StripLeadingZeros(Tail(ds)) ELSE ds

RECURSIVE StripTrailingZeros(_)
StripTrailingZeros(ds) ==
    IF ds # <<>> /\ ds[Len(ds)] = 0
    THEN StripTrailingZeros(SubSeq(ds, 1, Len(ds) - 1))
    ELSE ds

\* the number written by at most nine digits
RECURSIVE DigitsValue(_)
DigitsValue(ds) ==
    IF ds = <<>> THEN 0
    ELSE 10 * DigitsValue(SubSeq(ds, 1, Len(ds) - 1)) + ds[Len(ds)]

\* a < b for digit sequences of equal weight, compared from the left, the
\* shorter one padded with zeros on the right
RECURSIVE LexLess(_, _)
LexLess(a, b) ==
    IF a = <<>> /\ b = <<>> THEN FALSE
    ELSE LET x == IF a = <<>> THEN 0 ELSE Head(a)
             y == IF b = <<>> THEN 0 ELSE Head(b)
         IN  IF x # y THEN x < y
             ELSE LexLess(IF a = <<>> THEN a ELSE Tail(a),
                          IF b = <<>> THEN b ELSE Tail(b))

(***************************************************************************)
(* std::stoi (strtol, base 10, then the range check of int).  Returns     *)
(* [status, val]: "ok", or the exception stoi throws.  Leading blanks and *)
(* a sign are accepted, the longest run of digits is converted and what   *)
(* follows it is ignored.  int is 32 bits wide.                           *)
(***************************************************************************)
StoiResult(status, val) == [status |-> status, val |-> val]

\* ds: ten digits, hi its first nine as a number, lo its last
StoiTen(neg, hi, lo) ==
    IF hi < 214748364 \/ (hi = 214748364 /\ lo <= IF neg THEN 8 ELSE 7)
    THEN StoiResult("ok", IF neg THEN (0 - 10 * hi) - lo ELSE 10 * hi + lo)
    ELSE StoiResult("out_of_range", 0)

\* ds: the digits without leading zeros
StoiRange(neg, ds) ==
    IF Len(ds) <= 9
    THEN StoiResult("ok", IF neg THEN 0 - DigitsValue(ds) ELSE DigitsValue(ds))
    ELSE IF Len(ds) = 10 THEN StoiTen(neg, DigitsValue(SubSeq(ds, 1, 9)), ds[10])
    ELSE StoiResult("out_of_range", 0)

\* raw: the run of digits after the sign
StoiDigits(neg, raw) ==
    IF raw = <<>> THEN StoiResult("invalid_argument", 0)
    ELSE StoiRange(neg, StripLeadingZeros(raw))

\* p0: the position of the first character that is no blank
StoiSigned(str, p0) ==
    IF p0 <= Len(str) /\ str[p0] \in {"-", "+"}
    THEN StoiDigits(str[p0] = "-", DigitSeq(str, p0 + 1, DigitsEnd(str, p0 + 1)))
    ELSE StoiDigits(FALSE, DigitSeq(str, p0, DigitsEnd(str, p0)))

stoi(str) == StoiSigned(str, SkipSpace(str, 1))

(***************************************************************************)
(* A float is kept as the decimal it was written as:                       *)
(*   [kind |-> "num", neg, digs, exp] stands for (-)0.d1 d2 ... * 10^exp  *)
(* with d1 # 0 and no trailing zero (zero is digs = <<>>, exp = 0), so    *)
(* that two floats are equal exactly when their records are.  Decimals of *)
(* more than FLT_DIG digits, which a float rounds, are outside the inputs.*)
(***************************************************************************)
FloatZero == [kind |-> "num", neg |-> FALSE, digs |-> <<>>, exp |-> 0]

\* ds: the digits without leading zeros, of which lead were dropped
FloatNorm(neg, ds, lead, intLen, e) ==
    IF StripTrailingZeros(ds) = <<>> THEN FloatZero
    ELSE [kind |-> "num", neg |-> neg, digs |-> StripTrailingZeros(ds),
          exp |-> (intLen - lead) + e]

FloatNum(neg, intDs, fracDs, e) ==
    FloatNorm(neg, StripLeadingZeros(intDs \o fracDs),
              Len(intDs \o fracDs) - Len(StripLeadingZeros(intDs \o fracDs)),
              Len(intDs), e)

\* FLT_MAX = 0.34028235 * 10^39 and FLT_MIN = 0.11754944 * 10^-37
FloatOverflows(f) ==
    /\ f.digs # <<>>
    /\ \/ f.exp > 39
       \/ f.exp = 39 /\ LexLess(<<3, 4, 0, 2, 8, 2, 3, 5>>, f.digs)

FloatUnderflows(f) ==
    /\ f.digs # <<>>
    /\ \/ f.exp < 0 - 37
       \/ f.exp = 0 - 37 /\ LexLess(f.digs, <<1, 1, 7, 5, 4, 9, 4, 4>>)

(***************************************************************************)
(* std::stof (strtof, then ERANGE -> out_of_range).  Accepts leading      *)
(* blanks, a sign, "inf"/"nan", or digits with an optional fraction and   *)
(* an optional exponent; what follows the longest such prefix is ignored. *)
(* Hexadecimal floats are not modelled (no input writes "0x").            *)
(***************************************************************************)
StofResult(status, val) == [status |-> status, val |-> val]

StofRange(f) ==
    IF FloatOverflows(f) \/ FloatUnderflows(f) THEN StofResult("out_of_range", FloatZero)
    ELSE StofResult("ok", f)

\* eDs: the digits of the exponent without leading zeros
StofExponent(eNeg, eDs) ==
    IF Len(eDs) > 4 THEN IF eNeg THEN 0 - 10000 ELSE 10000
    ELSE IF eNeg THEN 0 - DigitsValue(eDs) ELSE DigitsValue(eDs)

\* p4: the position after the exponent's letter and sign
StofExpDigits(str, neg, intDs, fracDs, eNeg, p4) ==
    StofRange(FloatNum(neg, intDs, fracDs,
                       StofExponent(eNeg,
                           StripLeadingZeros(DigitSeq(str, p4, DigitsEnd(str, p4))))))

\* p3: the position after the digits and the fraction
StofExp(str, neg, intDs, fracDs, p3) ==
    IF p3 <= Len(str) /\ str[p3] \in {"e", "E"}
    THEN IF p3 + 1 <= Len(str) /\ str[p3 + 1] \in {"-", "+"}
         THEN StofExpDigits(str, neg, intDs, fracDs, str[p3 + 1] = "-", p3 + 2)
         ELSE StofExpDigits(str, neg, intDs, fracDs, FALSE, p3 + 1)
    ELSE StofRange(FloatNum(neg, intDs, fracDs, 0))

StofMantissa(str, neg, intDs, fracDs, p3) ==
    IF Len(intDs) + Len(fracDs) = 0 THEN StofResult("invalid_argument", FloatZero)
    ELSE StofExp(str, neg, intDs, fracDs, p3)

\* p2: the position after the digits before the point
StofFraction(str, neg, intDs, p2) ==
    IF p2 <= Len(str) /\ str[p2] = "."
    THEN StofMantissa(str, neg, intDs,
                      DigitSeq(str, p2 + 1, DigitsEnd(str, p2 + 1)),
                      DigitsEnd(str, p2 + 1))
    ELSE StofMantissa(str, neg, intDs, <<>>, p2)

\* p1: the position after the sign
StofWord(str, neg, p1) ==
    IF Slice(str, p1, p1 + 2) = <<"i", "n", "f">>
    THEN StofResult("ok", [kind |-> "inf", neg |-> neg, digs |-> <<>>, exp |-> 0])
    ELSE IF Slice(str, p1, p1 + 2) = <<"n", "a", "n">>
    THEN StofResult("ok", [kind |-> "nan", neg |-> neg, digs |-> <<>>, exp |-> 0])
    ELSE StofFraction(str, neg, DigitSeq(str, p1, DigitsEnd(str, p1)), DigitsEnd(str, p1))

\* p0: the position of the first character that is no blank
StofSigned(str, p0) ==
    IF p0 <= Len(str) /\ str[p0] \in {"-", "+"}
    THEN StofWord(str, str[p0] = "-", p0 + 1)
    ELSE StofWord(str, FALSE, p0)

stof(str) == StofSigned(str, SkipSpace(str, 1))

\* CliParser::isNegativeNumber (argy.hpp 1040-1055)
isNegativeNumber(str) ==
    IF ~startsWith(str, <<"-">>) \/ Len(str) <= 1 THEN FALSE
    ELSE stof(substr(str, 1)).status = "ok"

(***************************************************************************)
(* Value (argy.hpp 986-995) and ArgType (argy.hpp 998-1007).  A C++ type T *)
(* of add<T>/get<T> is named by the tag of its alternative in Value.       *)
(***************************************************************************)
Mono == [tag |-> "monostate", v |-> <<>>]

Val(tag, v) == [tag |-> tag, v |-> v]

ScalarTags == {"string", "int", "float", "bool"}

ListTags == {"strings", "ints", "floats", "bools"}

\* holds_alternative<T>(value)
holds(T, value) == value.tag = T

\* CliParser::deduceArgType (argy.hpp 1138-1148)
deduceArgType(T) ==
    CASE T = "int"     -> "Int"
      [] T = "float"   -> "Float"
      [] T = "bool"    -> "Bool"
      [] T = "string"  -> "String"
      [] T = "ints"    -> "IntList"
      [] T = "floats"  -> "FloatList"
      [] T = "bools"   -> "BoolList"
      [] T = "strings" -> "StringList"

\* CliParser::isListType (argy.hpp 1129-1132)
isListType(type) == type \in {"StringList", "IntList", "FloatList", "BoolList"}

(***************************************************************************)
(* The parser object.                                                      *)
(***************************************************************************)
VARIABLES
    argv,               \* m_argv[1 .. m_argc-1], fixed at construction
    programName,        \* m_argv[0], fixed at construction
    m_arguments,        \* canonical key -> Arg
    m_nameLookup,       \* every registered form -> canonical key
    m_positionalOrder,  \* canonical keys of the positionals, in order
    m_helpHandler,      \* what the installed help handler does
    pc,                 \* "idle", or the place parse() has reached
    i,                  \* parse(): index of the token the loop is at
    currentKey,         \* parse(): the option awaiting a value, "" if none
    positionalIndex,    \* parse(): positionals used so far
    todo,               \* parse(): entries the final loop has yet to visit
    call,               \* the last call of the API and its arguments
    exc,                \* the exception that call raised, "none" if none
    helpCalls,          \* help handler invocations during the last parse()
    helpName,           \* the name the help handler was last invoked with
    validated,          \* keys whose validator the last parse() invoked
    declared,           \* history: the keys add() registered, in call order
    attached            \* history: <<key, validator>> for every validator set

vars == <<argv, programName, m_arguments, m_nameLookup, m_positionalOrder,
          m_helpHandler, pc, i, currentKey, positionalIndex, todo, call, exc,
          helpCalls, helpName, validated, declared, attached>>

parseVars == <<i, currentKey, positionalIndex, todo, helpCalls, helpName, validated>>

\* the empty std::string
NoKey == <<>>

\* std::find(a.names.begin(), a.names.end(), s) != a.names.end()
InNames(a, s) == \E k \in DOMAIN a.names : a.names[k] = s

\* m[key] = value of a std::unordered_map
MapPut(m, key, value) ==
    [k \in DOMAIN m \cup {key} |-> IF k = key THEN value ELSE m[k]]

RECURSIVE MapPutAll(_, _, _)
MapPutAll(m, keys, value) ==
    IF keys = <<>> THEN m
    ELSE MapPutAll(MapPut(m, Head(keys), value), Tail(keys), value)

(***************************************************************************)
(* add<T>(names, help, defaultValue)  (argy.hpp 451-515).  dflt is Mono    *)
(* for std::nullopt.  The help text has no effect and is left out.         *)
(***************************************************************************)
IsLongForm(n) == startsWith(n, <<"-", "-">>)

IsShortForm(n) == ~IsLongForm(n) /\ startsWith(n, <<"-">>)

\* lines 456-471: the names pushed to longNames (dashes stripped)
AddLongNames(names) ==
    LET keep(n) == ~IsShortForm(n)
        sel == SelectSeq(names, keep)
    IN  [k \in DOMAIN sel |-> IF IsLongForm(sel[k]) THEN substr(sel[k], 2) ELSE sel[k]]

\* lines 462-466: the names pushed to shortNames (dash stripped)
AddShortNames(names) ==
    LET sel == SelectSeq(names, IsShortForm)
    IN  [k \in DOMAIN sel |-> substr(sel[k], 1)]

AddCleanNames(names) == [k \in DOMAIN names |-> normalizeName(names[k])]

\* lines 458 and 463
AddInvalid(names) ==
    \E k \in DOMAIN names :
        \/ IsLongForm(names[k]) /\ Len(names[k]) <= 2
        \/ IsShortForm(names[k]) /\ Len(names[k]) <= 1

\* lines 473-479
AddReserved(names) ==
    \/ \E k \in DOMAIN AddLongNames(names) : AddLongNames(names)[k] = <<"h", "e", "l", "p">>
    \/ \E k \in DOMAIN AddShortNames(names) : AddShortNames(names)[k] = <<"h">>

\* lines 481-488
AddDuplicate(names) ==
    \E key \in DOMAIN m_arguments :
        \E c \in DOMAIN AddCleanNames(names) :
            InNames(m_arguments[key], AddCleanNames(names)[c])

\* the exception add() raises, "none" if it registers the argument
AddException(names) ==
    IF AddInvalid(names) THEN "InvalidArgumentException"
    ELSE IF AddReserved(names) THEN "ReservedArgumentException"
    ELSE IF AddDuplicate(names) THEN "DuplicateArgumentException"
    ELSE "none"

\* an empty std::function: no validator set  (argy.hpp 1023)
NoValidator == [T |-> "none", min |-> 0, max |-> 0]

\* a variant of lines 491-492 in which a positional is required whatever its
\* default
NewArgPositionalRequired(names, T, dflt) ==
    [ names        |-> AddCleanNames(names),
      shortForms   |-> AddShortNames(names),
      longForms    |-> AddLongNames(names),
      required     |-> IF T = "bool" THEN FALSE
                       ELSE \/ dflt.tag = "monostate"
                            \/ \A k \in DOMAIN names : ~startsWith(names[k], <<"-">>),
      type         |-> deduceArgType(T),
      defaultValue |-> dflt,
      parsedValue  |-> Mono,
      positional   |-> \A k \in DOMAIN names : ~startsWith(names[k], <<"-">>),
      validator    |-> NoValidator ]

\* lines 489-496: the Arg that add() builds
NewArg(names, T, dflt) ==
    [ names        |-> AddCleanNames(names),
      shortForms   |-> AddShortNames(names),
      longForms    |-> AddLongNames(names),
      required     |-> IF T = "bool" THEN FALSE ELSE dflt.tag = "monostate",
      type         |-> deduceArgType(T),
      defaultValue |-> dflt,
      parsedValue  |-> Mono,
      positional   |-> \A k \in DOMAIN names : ~startsWith(names[k], <<"-">>),
      validator    |-> NoValidator ]

\* a variant of lines 498-510 that enters only the first name
AddLookupFormsFirstOnly(names) == << AddCleanNames(names)[1] >>

\* lines 498-510: the forms add() enters in m_nameLookup
AddLookupForms(names) ==
    LET ln == AddLongNames(names)
        sn == AddShortNames(names)
    IN  AddCleanNames(names)
        \o ln \o [k \in DOMAIN ln |-> <<"-", "-">> \o ln[k]]
        \o sn \o [k \in DOMAIN sn |-> <<"-">> \o sn[k]]

\* a variant of lines 451-515 that enters the lookup forms before it looks
\* for duplicates
AddLookupBeforeCheck(names, T, dflt) ==
    /\ pc = "idle"
    /\ call' = [op |-> "add", names |-> names, T |-> T, dflt |-> dflt]
    /\ exc' = AddException(names)
    /\ IF AddException(names) = "none"
       THEN LET key == IF names = <<>> THEN NoKey ELSE AddCleanNames(names)[1]
                arg == NewArg(names, T, dflt)
            IN  /\ m_arguments' = MapPut(m_arguments, key, arg)
                /\ m_nameLookup' = MapPutAll(m_nameLookup, AddLookupForms(names), key)
                /\ m_positionalOrder' =
                       IF arg.positional THEN Append(m_positionalOrder, key)
                       ELSE m_positionalOrder
                /\ declared' = Append(declared, key)
       ELSE IF AddException(names) = "DuplicateArgumentException"
       THEN /\ m_nameLookup' =
                   MapPutAll(m_nameLookup, AddLookupForms(names), AddCleanNames(names)[1])
            /\ UNCHANGED <<m_arguments, m_positionalOrder, declared>>
       ELSE UNCHANGED <<m_arguments, m_nameLookup, m_positionalOrder, declared>>
    /\ UNCHANGED <<argv, programName, m_helpHandler, pc, attached>>
    /\ UNCHANGED parseVars

Add(names, T, dflt) ==
    /\ pc = "idle"
    /\ call' = [op |-> "add", names |-> names, T |-> T, dflt |-> dflt]
    /\ exc' = AddException(names)
    /\ IF AddException(names) = "none"
       THEN LET key == IF names = <<>> THEN NoKey ELSE AddCleanNames(names)[1]
                arg == NewArg(names, T, dflt)
            IN  /\ m_arguments' = MapPut(m_arguments, key, arg)
                /\ m_nameLookup' = MapPutAll(m_nameLookup, AddLookupForms(names), key)
                /\ m_positionalOrder' =
                       IF arg.positional THEN Append(m_positionalOrder, key)
                       ELSE m_positionalOrder
                /\ declared' = Append(declared, key)
       ELSE UNCHANGED <<m_arguments, m_nameLookup, m_positionalOrder, declared>>
    /\ UNCHANGED <<argv, programName, m_helpHandler, pc, attached>>
    /\ UNCHANGED parseVars

\* setHelpHandler(handler)  (argy.hpp 405-407)
setHelpHandler(h) ==
    /\ pc = "idle"
    /\ m_helpHandler' = h
    /\ call' = [op |-> "setHelpHandler"]
    /\ exc' = "none"
    /\ UNCHANGED <<argv, programName, m_arguments, m_nameLookup, m_positionalOrder,
                   pc, declared, attached>>
    /\ UNCHANGED parseVars

(***************************************************************************)
(* Validators.  setValidator (argy.hpp 413-434) stores a wrapper that      *)
(* raises TypeMismatchException unless the value holds the validator's     *)
(* argument type T, and otherwise calls the user's function.  A validator  *)
(* is the record [T, min, max] of IsValueInRange<int> (argy.hpp 122-129)   *)
(* or IsVectorInRange<int> (argy.hpp 137-144), or "none".                  *)
(***************************************************************************)
IsValueInRange(min, max, value) ==
    IF value < min \/ value > max THEN "OutOfRangeException" ELSE "none"

IsVectorInRange(min, max, values) ==
    IF \E k \in DOMAIN values : IsValueInRange(min, max, values[k]) # "none"
    THEN "OutOfRangeException" ELSE "none"

\* the exception the stored wrapper raises on value, "none" if it returns
RunValidator(validator, value) ==
    IF ~holds(validator.T, value) THEN "TypeMismatchException"
    ELSE IF validator.T = "int"
         THEN IsValueInRange(validator.min, validator.max, value.v)
         ELSE IsVectorInRange(validator.min, validator.max, value.v)

setValidator(name, validator) ==
    /\ pc = "idle"
    /\ call' = [op |-> "setValidator", name |-> name]
    /\ IF normalizeName(name) \notin DOMAIN m_nameLookup
       THEN /\ exc' = "UnknownArgumentException"
            /\ UNCHANGED <<m_arguments, attached>>
       ELSE /\ exc' = "none"
            /\ m_arguments' =
                   [m_arguments EXCEPT ![m_nameLookup[normalizeName(name)]].validator
                                           = validator]
            /\ attached' = attached \cup { <<m_nameLookup[normalizeName(name)], validator>> }
    /\ UNCHANGED <<argv, programName, m_nameLookup, m_positionalOrder, m_helpHandler,
                   pc, declared>>
    /\ UNCHANGED parseVars

(***************************************************************************)
(* parse()  (argy.hpp 578-743), one step per loop iteration.               *)
(***************************************************************************)
HelpTokens == { <<"-", "-", "h", "e", "l", "p">>, <<"-", "h">> }

\* leaving parse() by an exception
Raise(e) ==
    /\ pc' = "idle"
    /\ exc' = e

\* a variant of lines 582-588 in which parse() goes on after the handler returns
ParseBeginContinues ==
    /\ pc = "idle"
    /\ call' = [op |-> "parse"]
    /\ validated' = {}
    /\ i' = 1
    /\ currentKey' = NoKey
    /\ positionalIndex' = 0
    /\ todo' = {}
    /\ IF \E k \in DOMAIN argv : argv[k] \in HelpTokens
       THEN /\ helpCalls' = 1
            /\ helpName' = programName
            /\ pc' = IF m_helpHandler = "exit" THEN "exited"
                     ELSE IF m_helpHandler = "throw" THEN "idle" ELSE "loop"
            /\ exc' = IF m_helpHandler = "throw" THEN "HandlerException" ELSE "none"
       ELSE /\ helpCalls' = 0
            /\ helpName' = NoKey
            /\ pc' = "loop"
            /\ exc' = "none"
    /\ UNCHANGED <<argv, programName, m_arguments, m_nameLookup, m_positionalOrder,
                   m_helpHandler, declared, attached>>

\* a variant of lines 579-592 that looks for a help flag in the first token
\* only
ParseBeginFirstToken ==
    /\ pc = "idle"
    /\ call' = [op |-> "parse"]
    /\ validated' = {}
    /\ i' = 1
    /\ currentKey' = NoKey
    /\ positionalIndex' = 0
    /\ todo' = {}
    /\ IF argv # <<>> /\ argv[1] \in HelpTokens
       THEN /\ helpCalls' = 1
            /\ helpName' = programName
            /\ pc' = IF m_helpHandler = "exit" THEN "exited" ELSE "idle"
            /\ exc' = IF m_helpHandler = "throw" THEN "HandlerException" ELSE "none"
       ELSE /\ helpCalls' = 0
            /\ helpName' = NoKey
            /\ pc' = "loop"
            /\ exc' = "none"
    /\ UNCHANGED <<argv, programName, m_arguments, m_nameLookup, m_positionalOrder,
                   m_helpHandler, declared, attached>>

\* lines 579-592: the scan for a help flag, then the loop's initial state.
\* The default handler prints the help and calls std::exit(0).
ParseBegin ==
    /\ pc = "idle"
    /\ call' = [op |-> "parse"]
    /\ validated' = {}
    /\ i' = 1
    /\ currentKey' = NoKey
    /\ positionalIndex' = 0
    /\ todo' = {}
    /\ IF \E k \in DOMAIN argv : argv[k] \in HelpTokens
       THEN /\ helpCalls' = 1
            /\ helpName' = programName
            /\ pc' = IF m_helpHandler = "exit" THEN "exited" ELSE "idle"
            /\ exc' = IF m_helpHandler = "throw" THEN "HandlerException" ELSE "none"
       ELSE /\ helpCalls' = 0
            /\ helpName' = NoKey
            /\ pc' = "loop"
            /\ exc' = "none"
    /\ UNCHANGED <<argv, programName, m_arguments, m_nameLookup, m_positionalOrder,
                   m_helpHandler, declared, attached>>

\* lines 600-604 and 620-624: the entries std::find_if can return for the
\* dash-stripped token text normKey of a token that began with dashes
FindByName(normKey, dashes) ==
    { key \in DOMAIN m_arguments :
        \/ InNames(m_arguments[key], normKey)
        \/ InNames(m_arguments[key], dashes \o normKey) }

\* a variant of lines 606-615 in which a flag token stores nothing
TakeOptionNoFlag(key) ==
    LET arg == m_arguments[key]
    IN  IF isListType(arg.type)
        THEN /\ currentKey' = key
             /\ m_arguments' =
                    [m_arguments EXCEPT ![key].parsedValue = Val("strings", <<>>)]
        ELSE IF arg.type = "Bool"
        THEN /\ currentKey' = NoKey
             /\ UNCHANGED m_arguments
        ELSE /\ currentKey' = key
             /\ UNCHANGED m_arguments

\* a variant of lines 606-615 in which the token of a scalar option stores
\* an empty text
TakeOptionEmptyText(key) ==
    LET arg == m_arguments[key]
    IN  IF isListType(arg.type)
        THEN /\ currentKey' = key
             /\ m_arguments' =
                    [m_arguments EXCEPT ![key].parsedValue = Val("strings", <<>>)]
        ELSE IF arg.type = "Bool"
        THEN /\ currentKey' = NoKey
             /\ m_arguments' = [m_arguments EXCEPT ![key].parsedValue = Val("bool", TRUE)]
        ELSE /\ currentKey' = key
             /\ m_arguments' = [m_arguments EXCEPT ![key].parsedValue = Val("string", <<>>)]

\* lines 606-615 and 626-635: an option token that resolved to key
TakeOption(key) ==
    LET arg == m_arguments[key]
    IN  IF isListType(arg.type)
        THEN /\ currentKey' = key
             /\ m_arguments' =
                    [m_arguments EXCEPT ![key].parsedValue = Val("strings", <<>>)]
        ELSE IF arg.type = "Bool"
        THEN /\ currentKey' = NoKey
             /\ m_arguments' = [m_arguments EXCEPT ![key].parsedValue = Val("bool", TRUE)]
        ELSE /\ currentKey' = key
             /\ UNCHANGED m_arguments

\* lines 597 and 617: which branch of the loop body a token takes
TokenBranch(token) ==
    IF startsWith(token, <<"-", "-">>) THEN "long"
    ELSE IF startsWith(token, <<"-">>) /\ Len(token) > 1 /\ ~isNegativeNumber(token)
    THEN "short"
    ELSE IF currentKey # NoKey THEN "value"
    ELSE "positional"

\* a variant of lines 639-643 that puts the token in front
TakeValuePrepend(token) ==
    LET arg == m_arguments[currentKey]
    IN  IF isListType(arg.type)
        THEN /\ m_arguments' =
                    IF holds("strings", arg.parsedValue)
                    THEN [m_arguments EXCEPT ![currentKey].parsedValue =
                              Val("strings", <<token>> \o arg.parsedValue.v)]
                    ELSE m_arguments
             /\ UNCHANGED currentKey
        ELSE /\ m_arguments' =
                    [m_arguments EXCEPT ![currentKey].parsedValue = Val("string", token)]
             /\ currentKey' = NoKey

\* lines 637-648: a token taken as the value of the pending option
TakeValue(token) ==
    LET arg == m_arguments[currentKey]
    IN  IF isListType(arg.type)
        THEN /\ m_arguments' =
                    IF holds("strings", arg.parsedValue)
                    THEN [m_arguments EXCEPT ![currentKey].parsedValue =
                              Val("strings", Append(arg.parsedValue.v, token))]
                    ELSE m_arguments
             /\ UNCHANGED currentKey
        ELSE /\ m_arguments' =
                    [m_arguments EXCEPT ![currentKey].parsedValue = Val("string", token)]
             /\ currentKey' = NoKey

\* a variant of line 653 that hands the positionals out last to first
NextPositionalReversed == m_positionalOrder[Len(m_positionalOrder) - positionalIndex]

\* line 653: the positional the next positional token goes to
NextPositional == m_positionalOrder[positionalIndex + 1]

\* lines 594-657: one iteration of the parse loop
ParseToken ==
    /\ pc = "loop"
    /\ i <= Len(argv)
    /\ LET token   == argv[i]
           branch  == TokenBranch(token)
           normKey == IF branch = "long" THEN substr(token, 2) ELSE substr(token, 1)
           dashes  == IF branch = "long" THEN <<"-", "-">> ELSE <<"-">>
       IN  IF branch \in {"long", "short"}
           THEN IF FindByName(normKey, dashes) = {}
                THEN /\ Raise("UnknownArgumentException")
                     /\ UNCHANGED <<m_arguments, currentKey, positionalIndex, i>>
                ELSE /\ \E key \in FindByName(normKey, dashes) : TakeOption(key)
                     /\ i' = i + 1
                     /\ UNCHANGED <<pc, exc, positionalIndex>>
           ELSE IF branch = "value"
           THEN /\ TakeValue(token)
                /\ i' = i + 1
                /\ UNCHANGED <<pc, exc, positionalIndex>>
           ELSE IF positionalIndex >= Len(m_positionalOrder)
                THEN /\ Raise("UnexpectedPositionalArgumentException")
                     /\ UNCHANGED <<m_arguments, currentKey, positionalIndex, i>>
                ELSE /\ positionalIndex' = positionalIndex + 1
                     /\ m_arguments' =
                            [m_arguments EXCEPT
                                ![NextPositional].parsedValue = Val("string", token)]
                     /\ i' = i + 1
                     /\ UNCHANGED <<pc, exc, currentKey>>
    /\ UNCHANGED <<argv, programName, m_nameLookup, m_positionalOrder, m_helpHandler,
                   call, todo, helpCalls, helpName, validated, declared, attached>>

\* a variant in which the range-for of line 660 may start before the loop
\* of line 594 has consumed every token
ParseScanDoneEarly ==
    /\ pc = "loop"
    /\ todo' = DOMAIN m_arguments
    /\ pc' = IF DOMAIN m_arguments = {} THEN "idle" ELSE "final"
    /\ UNCHANGED <<argv, programName, m_arguments, m_nameLookup, m_positionalOrder,
                   m_helpHandler, i, currentKey, positionalIndex, call, exc,
                   helpCalls, helpName, validated, declared, attached>>

\* line 594 failing its test and line 660 starting the range-for
ParseScanDone ==
    /\ pc = "loop"
    /\ i > Len(argv)
    /\ todo' = DOMAIN m_arguments
    /\ pc' = IF DOMAIN m_arguments = {} THEN "idle" ELSE "final"
    /\ UNCHANGED <<argv, programName, m_arguments, m_nameLookup, m_positionalOrder,
                   m_helpHandler, i, currentKey, positionalIndex, call, exc,
                   helpCalls, helpName, validated, declared, attached>>

\* val == "true" || val == "1"  (lines 684 and 719)
ToBool(text) == text = <<"t", "r", "u", "e">> \/ text = <<"1">>

\* lines 673-699: [exc, value] of converting the raw text of a scalar
ConvertScalar(type, text) ==
    CASE type = "Int" ->
            LET r == stoi(text)
            IN  IF r.status = "invalid_argument"
                THEN [exc |-> "InvalidValueException", value |-> Mono]
                ELSE IF r.status = "out_of_range"
                THEN [exc |-> "OutOfRangeException", value |-> Mono]
                ELSE [exc |-> "none", value |-> Val("int", r.val)]
      [] type = "Float" ->
            LET r == stof(text)
            IN  IF r.status = "invalid_argument"
                THEN [exc |-> "InvalidValueException", value |-> Mono]
                ELSE IF r.status = "out_of_range"
                THEN [exc |-> "OutOfRangeException", value |-> Mono]
                ELSE [exc |-> "none", value |-> Val("float", r.val)]
      [] type = "Bool" -> [exc |-> "none", value |-> Val("bool", ToBool(text))]
      [] OTHER -> [exc |-> "none", value |-> Val("string", text)]

\* lines 701-736: [exc, value] of converting the raw texts of a list; both
\* std::invalid_argument and std::out_of_range become InvalidValueException
ConvertList(type, texts) ==
    CASE type = "IntList" ->
            IF \E k \in DOMAIN texts : stoi(texts[k]).status # "ok"
            THEN [exc |-> "InvalidValueException", value |-> Mono]
            ELSE [exc |-> "none",
                  value |-> Val("ints", [k \in DOMAIN texts |-> stoi(texts[k]).val])]
      [] type = "FloatList" ->
            IF \E k \in DOMAIN texts : stof(texts[k]).status # "ok"
            THEN [exc |-> "InvalidValueException", value |-> Mono]
            ELSE [exc |-> "none",
                  value |-> Val("floats", [k \in DOMAIN texts |-> stof(texts[k]).val])]
      [] type = "BoolList" ->
            [exc |-> "none",
             value |-> Val("bools", [k \in DOMAIN texts |-> ToBool(texts[k])])]
      [] OTHER -> [exc |-> "none", value |-> Val("strings", texts)]

\* a variant of lines 661-670 without the test of arg.required
FinalizedNotRequired(arg) ==
    IF holds("monostate", arg.parsedValue)
    THEN [exc |-> "none", value |-> arg.defaultValue]
    ELSE IF ~isListType(arg.type) /\ holds("string", arg.parsedValue)
    THEN ConvertScalar(arg.type, arg.parsedValue.v)
    ELSE IF isListType(arg.type) /\ holds("strings", arg.parsedValue)
    THEN ConvertList(arg.type, arg.parsedValue.v)
    ELSE [exc |-> "none", value |-> arg.parsedValue]

\* lines 661-737: [exc, value] for one entry, before its validator runs
Finalized(arg) ==
    IF holds("monostate", arg.parsedValue)
    THEN IF arg.required
         THEN [exc |-> "MissingArgumentException", value |-> arg.parsedValue]
         ELSE [exc |-> "none", value |-> arg.defaultValue]
    ELSE IF ~isListType(arg.type) /\ holds("string", arg.parsedValue)
    THEN ConvertScalar(arg.type, arg.parsedValue.v)
    ELSE IF isListType(arg.type) /\ holds("strings", arg.parsedValue)
    THEN ConvertList(arg.type, arg.parsedValue.v)
    ELSE [exc |-> "none", value |-> arg.parsedValue]

\* lines 660-742: one iteration of the final loop.  std::unordered_map fixes
\* no iteration order, so any entry not yet visited may come next.
ParseFinalize ==
    /\ pc = "final"
    /\ \E key \in todo :
         LET arg == m_arguments[key]
             f   == Finalized(arg)
             v   == IF f.exc = "none" /\ arg.validator # NoValidator
                    THEN RunValidator(arg.validator, f.value) ELSE "none"
         IN  /\ m_arguments' =
                    IF f.exc = "none"
                    THEN [m_arguments EXCEPT ![key].parsedValue = f.value]
                    ELSE m_arguments
             /\ validated' =
                    IF f.exc = "none" /\ arg.validator # NoValidator
                    THEN validated \cup {key} ELSE validated
             /\ todo' = todo \ {key}
             /\ IF f.exc # "none" THEN Raise(f.exc)
                ELSE IF v # "none" THEN Raise(v)
                ELSE /\ pc' = IF todo = {key} THEN "idle" ELSE "final"
                     /\ UNCHANGED exc
    /\ UNCHANGED <<argv, programName, m_nameLookup, m_positionalOrder, m_helpHandler,
                   i, currentKey, positionalIndex, call, helpCalls, helpName,
                   declared, attached>>

(***************************************************************************)
(* get<T>(name)  (argy.hpp 751-786) and has(name)  (argy.hpp 791-797):     *)
(* const member functions, read off the state.  get yields [exc, value].   *)
(***************************************************************************)
get(T, name) ==
    IF normalizeName(name) \notin DOMAIN m_nameLookup
    THEN [exc |-> "UnknownArgumentException", value |-> Mono]
    ELSE LET arg == m_arguments[m_nameLookup[normalizeName(name)]]
         IN  IF T = "bool"
             THEN IF holds("bool", arg.parsedValue)
                  THEN [exc |-> "none", value |-> arg.parsedValue]
                  ELSE [exc |-> "none", value |-> Val("bool", FALSE)]
             ELSE IF T \in ListTags
             THEN IF holds(T, arg.parsedValue)
                  THEN [exc |-> "none", value |-> arg.parsedValue]
                  ELSE IF holds(T, arg.defaultValue)
                  THEN [exc |-> "none", value |-> arg.defaultValue]
                  ELSE [exc |-> "TypeMismatchException", value |-> Mono]
             ELSE IF holds("monostate", arg.parsedValue)
                  THEN IF holds(T, arg.defaultValue)
                       THEN [exc |-> "none", value |-> arg.defaultValue]
                       ELSE [exc |-> "MissingArgumentException", value |-> Mono]
                  ELSE IF holds(T, arg.parsedValue)
                  THEN [exc |-> "none", value |-> arg.parsedValue]
                  ELSE [exc |-> "TypeMismatchException", value |-> Mono]

has(name) ==
    IF normalizeName(name) \notin DOMAIN m_nameLookup THEN FALSE
    ELSE ~holds("monostate", m_arguments[m_nameLookup[normalizeName(name)]].parsedValue)

(***************************************************************************)
(* Construction (argy.hpp 394-400) and the specifications.  A              *)
(* specification draws argv from a set of token lists and the calls of     *)
(* add() from a set of declarations [names, T, dflt].                      *)
(***************************************************************************)
\* the parser built from one of the program names and one of the token lists
InitProgram(names, argvs) ==
    /\ programName \in names
    /\ argv \in argvs
    /\ m_arguments = <<>>
    /\ m_nameLookup = <<>>
    /\ m_positionalOrder = <<>>
    /\ m_helpHandler = "exit"
    /\ pc = "idle"
    /\ i = 1
    /\ currentKey = NoKey
    /\ positionalIndex = 0
    /\ todo = {}
    /\ call = [op |-> "none"]
    /\ exc = "none"
    /\ helpCalls = 0
    /\ helpName = NoKey
    /\ validated = {}
    /\ declared = <<>>
    /\ attached = {}

\* argv[0] of a program started as "prog"
ProgramName == <<"p", "r", "o", "g">>

InitWith(argvs) == InitProgram({ ProgramName }, argvs)

\* the token lists of at most n tokens drawn from tokens
TokenLists(tokens, n) == UNION { [1..k -> tokens] : k \in 0..n }

\* most arguments a run registers
MaxArgs == 2

\* most tokens on a command line
MaxArgc == 3

AddFrom(decls) ==
    \E d \in decls :
        /\ Cardinality(DOMAIN m_arguments) < MaxArgs
        /\ Add(d.names, d.T, d.dflt)

\* most validators a run attaches
MaxValidators == 2

\* setValidator(name, fn) with a name and a validator of the given sets
ValidateFrom(names, validators) ==
    \E name \in names : \E validator \in validators :
        /\ Cardinality(attached) < MaxValidators
        /\ setValidator(name, validator)

\* IsValueInRange<int>(min, max) or IsVectorInRange<int>(min, max)
InRange(T, min, max) == [T |-> T, min |-> min, max |-> max]

Decl(names, T, dflt) == [names |-> names, T |-> T, dflt |-> dflt]

(***************************************************************************)
(* Spec: registration and parsing of command lines without a help token.   *)
(***************************************************************************)
Decls ==
    { Decl(<< <<"f">> >>, "string", Mono),
      Decl(<< <<"k">> >>, "int", Mono),
      Decl(<< <<"m">> >>, "ints", Mono),
      Decl(<< <<"-", "r">>, <<"-", "-", "r", "r">> >>, "string", Mono),
      Decl(<< <<"-", "-", "v">> >>, "bool", Mono) }

Tokens ==
    { <<"a">>, <<"1">>, <<"-", "r">>, <<"-", "-", "v">> }

Init == InitWith(TokenLists(Tokens, MaxArgc))

Next ==
    \/ AddFrom(Decls)
    \/ ParseBegin
    \/ ParseToken
    \/ ParseScanDone
    \/ ParseFinalize

Spec == Init /\ [][Next]_vars

(***************************************************************************)
(* The vocabulary of the properties, read off the command line and the     *)
(* declarations: which tokens are option tokens, which option awaits a     *)
(* value, and which argument a token is meant for.                         *)
(***************************************************************************)
\* a token that starts with "--", or with "-", is longer than one character
\* and is not a negative number
IsOptionToken(t) ==
    \/ startsWith(t, <<"-", "-">>)
    \/ startsWith(t, <<"-">>) /\ Len(t) > 1 /\ ~isNegativeNumber(t)

\* the text of an option token after its dashes
DashStripped(t) ==
    IF startsWith(t, <<"-", "-">>) THEN substr(t, 2)
    ELSE IF startsWith(t, <<"-">>) THEN substr(t, 1)
    ELSE t

\* the registered arguments one of whose aliases is the token's text
AliasOwners(t) ==
    { key \in DOMAIN m_arguments : InNames(m_arguments[key], DashStripped(t)) }

Owner(t) == CHOOSE key \in AliasOwners(t) : TRUE

\* the option awaiting a value once the first n tokens are processed
RECURSIVE Awaiting(_)
Awaiting(n) ==
    IF n = 0 THEN NoKey
    ELSE IF IsOptionToken(argv[n])
    THEN IF AliasOwners(argv[n]) = {} THEN NoKey
         ELSE IF m_arguments[Owner(argv[n])].type = "Bool" THEN NoKey
         ELSE Owner(argv[n])
    ELSE IF Awaiting(n - 1) # NoKey /\ isListType(m_arguments[Awaiting(n - 1)].type)
    THEN Awaiting(n - 1)
    ELSE NoKey

\* token n is a positional token
IsPositionalToken(n) == ~IsOptionToken(argv[n]) /\ Awaiting(n - 1) = NoKey

\* how many of the first n tokens are positional tokens
PositionalTokensUpTo(n) == Cardinality({ j \in 1..n : IsPositionalToken(j) })

\* the positional arguments in the order of their declarations
DeclaredPositionals ==
    LET IsPositional(key) == m_arguments[key].positional
    IN  SelectSeq(declared, IsPositional)

\* the argument token n is meant for, NoKey if there is none
Target(n) ==
    IF IsOptionToken(argv[n])
    THEN IF AliasOwners(argv[n]) = {} THEN NoKey ELSE Owner(argv[n])
    ELSE IF Awaiting(n - 1) # NoKey THEN Awaiting(n - 1)
    ELSE IF PositionalTokensUpTo(n) <= Len(DeclaredPositionals)
    THEN DeclaredPositionals[PositionalTokensUpTo(n)]
    ELSE NoKey

\* the C++ type an argument was declared with
TypeTag(type) == CHOOSE T \in ScalarTags \cup ListTags : deduceArgType(T) = type

SameValue(a, b) == a.tag = b.tag /\ a.v = b.v

\* parse() has returned without raising
ParseReturned == pc = "idle" /\ call.op = "parse" /\ exc = "none"

\* every argument but key keeps its stored value in this step
OthersKeep(key) ==
    \A other \in DOMAIN m_arguments \ {key} :
        m_arguments'[other].parsedValue = m_arguments[other].parsedValue

(***************************************************************************)
(* C5: positional tokens (not option tokens, arriving while no option      *)
(* awaits a value) go one-to-one to the positional arguments in            *)
(* declaration order: the k-th such token becomes the value of the k-th    *)
(* declared positional, however options are interleaved, and a positional  *)
(* token beyond the declared positionals makes parse() raise               *)
(* UnexpectedPositionalArgumentException.                                  *)
(***************************************************************************)
C5_PositionalStep ==
    (pc = "loop" /\ i <= Len(argv) /\ IsPositionalToken(i)) =>
        IF PositionalTokensUpTo(i) <= Len(DeclaredPositionals)
        THEN /\ pc' = "loop"
             /\ exc' = "none"
             /\ SameValue(m_arguments'[DeclaredPositionals[PositionalTokensUpTo(i)]].parsedValue,
                          Val("string", argv[i]))
             /\ OthersKeep(DeclaredPositionals[PositionalTokensUpTo(i)])
        ELSE /\ pc' = "idle"
             /\ exc' = "UnexpectedPositionalArgumentException"
             /\ m_arguments' = m_arguments

C5_PositionalOrder ==
    /\ [](m_positionalOrder = DeclaredPositionals)
    /\ [][C5_PositionalStep]_vars

\* two positionals took the first two positional tokens, the third was refused
C5_Witness ==
    /\ pc = "idle"
    /\ exc = "UnexpectedPositionalArgumentException"
    /\ Len(DeclaredPositionals) = 2
    /\ positionalIndex = 2
    /\ \A k \in 1..2 :
         \E j \in 1..Len(argv) :
            /\ IsPositionalToken(j)
            /\ PositionalTokensUpTo(j) = k
            /\ SameValue(m_arguments[DeclaredPositionals[k]].parsedValue,
                         Val("string", argv[j]))

(***************************************************************************)
(* What the command line supplies to an argument.                          *)
(***************************************************************************)
\* the tokens meant for key: its option tokens and its value tokens
EventsFor(key) == { j \in 1..Len(argv) : Target(j) = key }

ValueTokensFor(key) == { j \in EventsFor(key) : ~IsOptionToken(argv[j]) }

OptionTokensFor(key) == { j \in EventsFor(key) : IsOptionToken(argv[j]) }

Last(S) == CHOOSE x \in S : \A y \in S : y <= x

\* the tokens at the indices S, in input order
TokensAt(S) ==
    LET nth(k) == CHOOSE j \in S : Cardinality({ x \in S : x <= j }) = k
    IN  [k \in 1..Cardinality(S) |-> argv[nth(k)]]

\* the value tokens of key that follow the last of its option tokens
RunFor(key) ==
    IF OptionTokensFor(key) = {} THEN TokensAt(ValueTokensFor(key))
    ELSE TokensAt({ j \in ValueTokensFor(key) : j > Last(OptionTokensFor(key)) })

\* the input gives key a value: a flag or a list its tokens, a scalar a value
Received(key) ==
    IF m_arguments[key].type = "Bool" \/ isListType(m_arguments[key].type)
    THEN EventsFor(key) # {}
    ELSE ValueTokensFor(key) # {}

\* the input for key, coerced to its type
Coerced(key) ==
    LET type == m_arguments[key].type
    IN  IF isListType(type) THEN ConvertList(type, RunFor(key)).value
        ELSE IF type = "Bool" /\ Last(EventsFor(key)) \in OptionTokensFor(key)
        THEN Val("bool", TRUE)
        ELSE ConvertScalar(type, argv[Last(ValueTokensFor(key))]).value

\* get<T>(key) with the T the argument was declared with
GetDeclared(key) == get(TypeTag(m_arguments[key].type), key)

\* declared with a type other than bool and without a default
DeclaredRequired(key) ==
    /\ m_arguments[key].type # "Bool"
    /\ m_arguments[key].defaultValue.tag = "monostate"

\* parse() ended after its loop consumed every token
TokensConsumed ==
    pc = "idle" /\ call.op = "parse" /\ helpCalls = 0 /\ i > Len(argv)

(***************************************************************************)
(* C1: for every set of declarations and every token list without a help   *)
(* token on which parse() completes without raising, get<T>(name) returns  *)
(* for each argument that received tokens exactly the input coerced to T   *)
(* (scalar: the token; bool: true for a present flag; list: the            *)
(* accumulated tokens in input order), for all eight types and for         *)
(* positional as well as dashed arguments.                                 *)
(***************************************************************************)
C1_GetReturnsInput ==
    (ParseReturned /\ helpCalls = 0) =>
        \A key \in DOMAIN m_arguments :
            Received(key) =>
                /\ GetDeclared(key).exc = "none"
                /\ SameValue(GetDeclared(key).value, Coerced(key))

(***************************************************************************)
(* C2: parse() raises MissingArgumentException whenever, after the whole   *)
(* token list (with no help token) has been consumed, some non-bool        *)
(* argument declared without a default has received no value.              *)
(***************************************************************************)
SomeRequiredUnset ==
    \E key \in DOMAIN m_arguments : DeclaredRequired(key) /\ ~Received(key)

C2_MissingRaised ==
    (TokensConsumed /\ SomeRequiredUnset) => exc = "MissingArgumentException"

(***************************************************************************)
(* C2, as the code has it: in that situation parse() never returns         *)
(* normally.  The final loop raises MissingArgumentException when it       *)
(* reaches such an argument; it visits the arguments in no fixed order,    *)
(* so the failed conversion of another argument's value may be raised      *)
(* before it.                                                              *)
(***************************************************************************)
C2_FinalStep ==
    pc = "final" =>
        \A key \in todo \ todo' :
            (DeclaredRequired(key) /\ ~Received(key)) =>
                pc' = "idle" /\ exc' = "MissingArgumentException"

C2_MissingOrEarlier ==
    /\ [](TokensConsumed /\ SomeRequiredUnset =>
            \/ exc = "MissingArgumentException"
            \/ \E other \in DOMAIN m_arguments :
                 /\ Received(other)
                 /\ exc # "none"
                 /\ Finalized(m_arguments[other]).exc = exc)
    /\ [][C2_FinalStep]_vars

\* the required argument was reached and MissingArgumentException raised
C2_Witness ==
    /\ TokensConsumed
    /\ SomeRequiredUnset
    /\ Len(argv) > 0
    /\ exc = "MissingArgumentException"

(***************************************************************************)
(* SpecHelp: arguments with defaults, flags, and command lines that may    *)
(* hold a help token, with a help handler that returns.                    *)
(***************************************************************************)
HelpDecls ==
    { Decl(<< <<"-", "-", "v">> >>, "bool", Mono),
      Decl(<< <<"-", "-", "w">> >>, "bool", Val("bool", TRUE)),
      Decl(<< <<"-", "-", "u">> >>, "bool", Val("bool", FALSE)),
      Decl(<< <<"-", "-", "n">> >>, "int", Val("int", 7)),
      Decl(<< <<"f">> >>, "string", Val("string", <<"d">>)),
      Decl(<< <<"-", "-", "l">> >>, "strings", Val("strings", << <<"d">> >>)) }

HelpArgvTokens ==
    { <<"-", "-", "h", "e", "l", "p">>, <<"-", "-", "v">>, <<"-", "-", "w">>, <<"a">> }

Handlers == { "return" }

InitHelp == InitWith(TokenLists(HelpArgvTokens, MaxArgc))

NextHelp ==
    \/ AddFrom(HelpDecls)
    \/ \E h \in Handlers : setHelpHandler(h)
    \/ ParseBegin
    \/ ParseToken
    \/ ParseScanDone
    \/ ParseFinalize

SpecHelp == InitHelp /\ [][NextHelp]_vars

\* declared with a default
HasDefault(key) == m_arguments[key].defaultValue.tag # "monostate"

\* a bool argument reached through dashed names
IsFlag(key) == m_arguments[key].type = "Bool" /\ ~m_arguments[key].positional

\* a flag's token is somewhere on the command line
FlagPresent(key) ==
    \E j \in 1..Len(argv) :
        /\ startsWith(argv[j], <<"-">>)
        /\ InNames(m_arguments[key], DashStripped(argv[j]))

(***************************************************************************)
(* C3: an argument declared with default d, of any of the eight types,     *)
(* reads back as exactly d through get<T> after a successful parse() in    *)
(* which it received no value from the input.                              *)
(***************************************************************************)
C3_DefaultReadBack ==
    ParseReturned =>
        \A key \in DOMAIN m_arguments :
            (HasDefault(key) /\ EventsFor(key) = {}) =>
                /\ GetDeclared(key).exc = "none"
                /\ SameValue(GetDeclared(key).value, m_arguments[key].defaultValue)

(***************************************************************************)
(* C4: for every bool option, get<bool> returns false when its flag token  *)
(* is absent from the input and true when it is present, and parse() does  *)
(* not raise MissingArgumentException when it is absent.                   *)
(***************************************************************************)
C4_FlagAbsentFalse ==
    ParseReturned =>
        \A key \in DOMAIN m_arguments :
            IsFlag(key) =>
                /\ GetDeclared(key).exc = "none"
                /\ GetDeclared(key).value.v = FlagPresent(key)

(***************************************************************************)
(* C4, as the code has it: after a parse() that returned and met no help   *)
(* token, get<bool> of a bool option returns true when its flag token is   *)
(* present; when it is absent it returns the declared default, false if    *)
(* none was declared.  After a parse() that returned through the help      *)
(* handler nothing is parsed and get<bool> returns false.  The final loop  *)
(* never raises MissingArgumentException on reaching a bool option.        *)
(***************************************************************************)
FlagExpected(key) ==
    IF helpCalls > 0 THEN FALSE
    ELSE IF FlagPresent(key) THEN TRUE
    ELSE IF HasDefault(key) THEN m_arguments[key].defaultValue.v
    ELSE FALSE

C4_FinalStep ==
    pc = "final" =>
        \A key \in todo \ todo' :
            IsFlag(key) => exc' = "none"

C4_FlagOrDefault ==
    /\ [](ParseReturned =>
            \A key \in DOMAIN m_arguments :
                IsFlag(key) =>
                    /\ GetDeclared(key).exc = "none"
                    /\ GetDeclared(key).value.v = FlagExpected(key))
    /\ [][C4_FinalStep]_vars

\* one flag present and true, another absent and true by its default
C4_Witness ==
    /\ ParseReturned
    /\ helpCalls = 0
    /\ \E key \in DOMAIN m_arguments :
         IsFlag(key) /\ FlagPresent(key) /\ GetDeclared(key).value.v = TRUE
    /\ \E key \in DOMAIN m_arguments :
         /\ IsFlag(key) /\ ~FlagPresent(key)
         /\ SameValue(m_arguments[key].defaultValue, Val("bool", TRUE))
         /\ GetDeclared(key).value.v = TRUE

(***************************************************************************)
(* SpecList: list options among scalars, flags and positionals.            *)
(***************************************************************************)
ListDecls ==
    { Decl(<< <<"-", "l">>, <<"-", "-", "l", "l">> >>, "strings", Mono),
      Decl(<< <<"-", "-", "i">> >>, "ints", Val("ints", <<7>>)),
      Decl(<< <<"f">> >>, "string", Mono),
      Decl(<< <<"-", "-", "v">> >>, "bool", Mono) }

ListTokens ==
    { <<"-", "l">>, <<"-", "-", "i">>, <<"-", "-", "v">>,
      <<"a">>, <<"1">>, <<"-", "5">> }

InitList == InitWith(TokenLists(ListTokens, MaxArgc))

NextList ==
    \/ AddFrom(ListDecls)
    \/ ParseBegin
    \/ ParseToken
    \/ ParseScanDone
    \/ ParseFinalize

SpecList == InitList /\ [][NextList]_vars

\* a list-typed argument reached through dashed names
IsListOption(key) ==
    isListType(m_arguments[key].type) /\ ~m_arguments[key].positional

\* the tokens after token j up to the next option token or the end
RunAfter(j) ==
    TokensAt({ n \in (j + 1)..Len(argv) :
                 \A x \in (j + 1)..n : ~IsOptionToken(argv[x]) })

\* token j is an option token of the list option key
ListOptionAt(j, key) ==
    IsOptionToken(argv[j]) /\ Target(j) = key /\ IsListOption(key)

\* a token that follows a list option's token is appended, and no positional
\* takes it
C6_ListValueStep ==
    (/\ pc = "loop" /\ i <= Len(argv)
     /\ ~IsOptionToken(argv[i])
     /\ Awaiting(i - 1) # NoKey
     /\ IsListOption(Awaiting(i - 1))) =>
        /\ pc' = "loop"
        /\ SameValue(m_arguments'[Awaiting(i - 1)].parsedValue,
                     Val("strings",
                         Append(m_arguments[Awaiting(i - 1)].parsedValue.v, argv[i])))
        /\ OthersKeep(Awaiting(i - 1))
        /\ positionalIndex' = positionalIndex

(***************************************************************************)
(* C6: after a list-typed option token every following token, up to the    *)
(* next option token or the end of input, is appended to that list in      *)
(* input order, none of them goes to a positional argument, and get<T>     *)
(* returns exactly that sequence, coerced.                                 *)
(***************************************************************************)
C6_ListTakesRun ==
    /\ [](ParseReturned /\ helpCalls = 0 =>
            \A j \in 1..Len(argv) : \A key \in DOMAIN m_arguments :
                ListOptionAt(j, key) =>
                    /\ GetDeclared(key).exc = "none"
                    /\ SameValue(GetDeclared(key).value,
                                 ConvertList(m_arguments[key].type, RunAfter(j)).value))
    /\ [][C6_ListValueStep]_vars

(***************************************************************************)
(* C6, as the code has it: each token of a list option starts its list     *)
(* afresh, so get<T> returns the coerced run that follows the LAST         *)
(* occurrence of the option's token; the runs of its earlier occurrences   *)
(* are dropped.  Within a run every token is appended in input order and   *)
(* none goes to a positional argument.                                     *)
(***************************************************************************)
LastListOptionAt(j, key) ==
    /\ ListOptionAt(j, key)
    /\ \A n \in (j + 1)..Len(argv) : ~ListOptionAt(n, key)

C6_ListTakesLastRun ==
    /\ [](ParseReturned /\ helpCalls = 0 =>
            \A j \in 1..Len(argv) : \A key \in DOMAIN m_arguments :
                LastListOptionAt(j, key) =>
                    /\ GetDeclared(key).exc = "none"
                    /\ SameValue(GetDeclared(key).value,
                                 ConvertList(m_arguments[key].type, RunAfter(j)).value))
    /\ [][C6_ListValueStep]_vars

\* a list option read back with the two tokens of its run, in order
C6_Witness ==
    /\ ParseReturned
    /\ Len(argv) = 3
    /\ \E key \in DOMAIN m_arguments :
         /\ ListOptionAt(1, key)
         /\ Len(RunAfter(1)) = 2
         /\ RunAfter(1)[1] # RunAfter(1)[2]
         /\ SameValue(GetDeclared(key).value,
                      ConvertList(m_arguments[key].type, RunAfter(1)).value)

(***************************************************************************)
(* SpecDash: command lines with tokens that begin with a dash: negative    *)
(* numbers, known and unknown options.                                     *)
(***************************************************************************)
\* "-1" followed by 39 zeros: minus ten to the 39, beyond the range of float
HugeNegative == <<"-", "1">> \o [k \in 1..39 |-> "0"]

DashDecls ==
    { Decl(<< <<"-", "n">>, <<"-", "-", "n", "u", "m">> >>, "int", Mono),
      Decl(<< <<"-", "-", "x">> >>, "float", Mono),
      Decl(<< <<"-", "-", "l">> >>, "ints", Mono),
      Decl(<< <<"f">> >>, "string", Mono) }

DashTokens ==
    { <<"-", "5">>, <<"-", "0", ".", "5">>, HugeNegative, <<"-", "5", "x">>,
      <<"-", "n">>, <<"-", "-", "x">>, <<"-", "-", "l">>, <<"-", "-", "z", "z">>,
      <<"-", "z">>, <<"a">> }

InitDash == InitWith(TokenLists(DashTokens, MaxArgc))

NextDash ==
    \/ AddFrom(DashDecls)
    \/ ParseBegin
    \/ ParseToken
    \/ ParseScanDone
    \/ ParseFinalize

SpecDash == InitDash /\ [][NextDash]_vars

\* digits with at most one decimal point among them
IsNumericLiteral(text) ==
    /\ \E k \in DOMAIN text : IsDigit(text[k])
    /\ \A k \in DOMAIN text : IsDigit(text[k]) \/ text[k] = "."
    /\ Cardinality({ k \in DOMAIN text : text[k] = "." }) <= 1

\* "-" followed by a numeric literal
IsNegativeLiteral(t) ==
    Len(t) > 1 /\ t[1] = "-" /\ IsNumericLiteral(substr(t, 1))

(***************************************************************************)
(* C7: a token that is "-" followed by a numeric literal (-5, -0.5) is     *)
(* never treated as a short option: it is taken as the value of the        *)
(* option awaiting a value or, if none is, as a positional token, and it   *)
(* never makes parse() raise UnknownArgumentException.                     *)
(***************************************************************************)
C7_NegativeStep ==
    (pc = "loop" /\ i <= Len(argv) /\ IsNegativeLiteral(argv[i])) =>
        /\ exc' # "UnknownArgumentException"
        /\ IF Awaiting(i - 1) # NoKey
           THEN /\ pc' = "loop"
                /\ positionalIndex' = positionalIndex
                /\ SameValue(m_arguments'[Awaiting(i - 1)].parsedValue,
                       IF isListType(m_arguments[Awaiting(i - 1)].type)
                       THEN Val("strings",
                                Append(m_arguments[Awaiting(i - 1)].parsedValue.v, argv[i]))
                       ELSE Val("string", argv[i]))
           ELSE IF positionalIndex < Len(DeclaredPositionals)
           THEN /\ pc' = "loop"
                /\ positionalIndex' = positionalIndex + 1
                /\ SameValue(m_arguments'[DeclaredPositionals[positionalIndex + 1]].parsedValue,
                             Val("string", argv[i]))
           ELSE exc' = "UnexpectedPositionalArgumentException"

C7_NegativeNumberIsValue == [][C7_NegativeStep]_vars

(***************************************************************************)
(* C8: parse() raises UnknownArgumentException for every token that        *)
(* starts with "--", or starts with "-", is longer than one character and  *)
(* is not a negative number, and that matches no declared alias.           *)
(***************************************************************************)
C8_UnknownStep ==
    (/\ pc = "loop" /\ i <= Len(argv)
     /\ \/ startsWith(argv[i], <<"-", "-">>)
        \/ /\ startsWith(argv[i], <<"-">>)
           /\ Len(argv[i]) > 1
           /\ ~IsNegativeLiteral(argv[i])
     /\ AliasOwners(argv[i]) = {}) =>
        pc' = "idle" /\ exc' = "UnknownArgumentException"

C8_UnknownOptionRaises == [][C8_UnknownStep]_vars

(***************************************************************************)
(* SpecDecl: registration alone, with names in every dash style.           *)
(***************************************************************************)
DeclNames ==
    { <<"c">>, <<"-", "c">>, <<"-", "-", "c">>, <<"-", "-", "-", "c">>,
      <<"f">>, <<"-", "-", "f">>,
      <<"h", "e", "l", "p">>, <<"-", "-", "h", "e", "l", "p">>, <<"-", "h", "e", "l", "p">>,
      <<"h">>, <<"-", "h">>, <<"-", "-", "h">>,
      <<"-">>, <<"-", "-">> }

\* names add() is called with together
DeclAliases ==
    { <<"-", "c">>, <<"-", "-", "c">>, <<"-", "-", "f">>,
      <<"-", "-", "h", "e", "l", "p">>, <<"-", "-">> }

DeclNameLists ==
    { <<n>> : n \in DeclNames }
        \cup { <<n, a>> : n \in DeclAliases, a \in DeclAliases }

DeclCalls == { Decl(names, "int", Mono) : names \in DeclNameLists }

InitDecl == InitWith({ <<>> })

NextDecl == AddFrom(DeclCalls)

SpecDecl == InitDecl /\ [][NextDecl]_vars

\* a name without its leading dashes
RECURSIVE StripDashes(_)
StripDashes(name) ==
    IF name # <<>> /\ Head(name) = "-" THEN StripDashes(Tail(name)) ELSE name

\* the dash-stripped aliases of a registered argument
AliasesOf(key) ==
    { StripDashes(m_arguments[key].names[k]) : k \in DOMAIN m_arguments[key].names }

\* the step is a call of add()
IsAddStep == pc = "idle" /\ call'.op = "add"

(***************************************************************************)
(* C9: add() raises DuplicateArgumentException whenever one of the given   *)
(* names has the same dash-stripped form as an alias of an argument        *)
(* already registered, whatever the dash style (c, -c and --c collide),    *)
(* so no two registered arguments ever share an alias.                     *)
(***************************************************************************)
C9_DuplicateStep ==
    (/\ IsAddStep
     /\ \E k \in DOMAIN call'.names : \E key \in DOMAIN m_arguments :
            StripDashes(call'.names[k]) \in AliasesOf(key)) =>
        /\ exc' = "DuplicateArgumentException"
        /\ m_arguments' = m_arguments

C9_NoSharedAlias ==
    \A k1 \in DOMAIN m_arguments : \A k2 \in DOMAIN m_arguments :
        k1 # k2 => AliasesOf(k1) \cap AliasesOf(k2) = {}

C9_DuplicateRejected ==
    /\ [][C9_DuplicateStep]_vars
    /\ []C9_NoSharedAlias

(***************************************************************************)
(* C10: add() raises ReservedArgumentException whenever one of the given   *)
(* names is the help flag's long name help or short name h, in whatever    *)
(* dash style it is written, so the built-in help flag can never be        *)
(* registered over or shadowed.                                            *)
(***************************************************************************)
HelpNames == { <<"h", "e", "l", "p">>, <<"h">> }

C10_ReservedStep ==
    (/\ IsAddStep
     /\ \E k \in DOMAIN call'.names : StripDashes(call'.names[k]) \in HelpNames) =>
        /\ exc' = "ReservedArgumentException"
        /\ m_arguments' = m_arguments

C10_HelpNotRegistered ==
    \A key \in DOMAIN m_arguments : AliasesOf(key) \cap HelpNames = {}

C10_HelpReserved ==
    /\ [][C10_ReservedStep]_vars
    /\ []C10_HelpNotRegistered

(***************************************************************************)
(* SpecNames: registration alone, with names that are nothing but dashes   *)
(* or nothing at all.                                                      *)
(***************************************************************************)
NamePool ==
    { <<>>, <<"-">>, <<"-", "-">>, <<"-", "-", "-">>,
      <<"c">>, <<"-", "c">>, <<"-", "-", "d">> }

NameLists ==
    { <<n>> : n \in NamePool } \cup { <<n, a>> : n \in NamePool, a \in NamePool }

NameCalls == { Decl(names, "int", Mono) : names \in NameLists }

InitNames == InitWith({ <<>> })

NextNames == AddFrom(NameCalls)

SpecNames == InitNames /\ [][NextNames]_vars

\* the step leaves the registry as it was
RegistryKept ==
    /\ m_arguments' = m_arguments
    /\ m_nameLookup' = m_nameLookup
    /\ m_positionalOrder' = m_positionalOrder

(***************************************************************************)
(* C11: add() raises InvalidArgumentException for every supplied name      *)
(* that is empty once its leading dashes are stripped ("--", "-" and the   *)
(* empty string), and then registers nothing.                              *)
(***************************************************************************)
C11_EmptyNameStep ==
    (/\ IsAddStep
     /\ \E k \in DOMAIN call'.names : StripDashes(call'.names[k]) = <<>>) =>
        /\ exc' = "InvalidArgumentException"
        /\ RegistryKept

C11_EmptyNameRejected == [][C11_EmptyNameStep]_vars

(***************************************************************************)
(* SpecZero: list arguments, required or with an empty default, on         *)
(* command lines that give them no value.                                  *)
(***************************************************************************)
ZeroDecls ==
    { Decl(<< <<"-", "-", "l">> >>, "ints", Mono),
      Decl(<< <<"-", "-", "e">> >>, "ints", Val("ints", <<>>)),
      Decl(<< <<"-", "-", "s">> >>, "strings", Val("strings", <<>>)),
      Decl(<< <<"m">> >>, "ints", Mono) }

ZeroTokens ==
    { <<"-", "-", "l">>, <<"-", "-", "e">>, <<"-", "-", "s">>, <<"1">> }

InitZero == InitWith(TokenLists(ZeroTokens, MaxArgc))

NextZero ==
    \/ AddFrom(ZeroDecls)
    \/ ParseBegin
    \/ ParseToken
    \/ ParseScanDone
    \/ ParseFinalize

SpecZero == InitZero /\ [][NextZero]_vars

\* a list-typed argument for which the command line holds no value token
ZeroValues(key) ==
    isListType(m_arguments[key].type) /\ ValueTokensFor(key) = {}

\* declared with the empty list as its default
EmptyDefault(key) ==
    SameValue(m_arguments[key].defaultValue, Val(TypeTag(m_arguments[key].type), <<>>))

\* the final loop, on reaching a required list without a value, raises
C12_ZeroStep ==
    pc = "final" =>
        \A key \in todo \ todo' :
            (ZeroValues(key) /\ DeclaredRequired(key)) =>
                pc' = "idle" /\ exc' = "MissingArgumentException"

(***************************************************************************)
(* C12: a list-typed argument that receives zero values on the command     *)
(* line (its option is absent, or its option token is present but          *)
(* followed by no value token) yields an empty list from get when it is    *)
(* optional with an empty default, and makes parse() raise                 *)
(* MissingArgumentException when it is required.                           *)
(***************************************************************************)
C12_EmptyOrMissing ==
    /\ [](ParseReturned /\ helpCalls = 0 =>
            \A key \in DOMAIN m_arguments :
                ZeroValues(key) =>
                    /\ ~DeclaredRequired(key)
                    /\ EmptyDefault(key) =>
                         /\ GetDeclared(key).exc = "none"
                         /\ GetDeclared(key).value.v = <<>>)
    /\ [][C12_ZeroStep]_vars

(***************************************************************************)
(* C13: after parse(), has(name) is true exactly when the argument was     *)
(* explicitly supplied on the command line; it is false for a declared     *)
(* argument that was absent from the input and only received its default.  *)
(***************************************************************************)
C13_HasIffSupplied ==
    (ParseReturned /\ helpCalls = 0) =>
        \A key \in DOMAIN m_arguments : has(key) = Received(key)

(***************************************************************************)
(* SpecHelpRun: a required positional and an option whose default its      *)
(* validator rejects, on command lines with help tokens, under each kind   *)
(* of help handler and two program names.                                  *)
(***************************************************************************)
HelpRunDecls ==
    { Decl(<< <<"k">> >>, "int", Mono),
      Decl(<< <<"-", "-", "n">> >>, "int", Val("int", 7)) }

HelpRunTokens ==
    { <<"-", "-", "h", "e", "l", "p">>, <<"-", "h">>, <<"3">>, <<"-", "-", "n">> }

HelpRunValidators == { InRange("int", 1, 5) }

HelpRunHandlers == { "return", "throw" }

ProgramNames == { ProgramName, <<"a">> }

InitHelpRun == InitProgram(ProgramNames, TokenLists(HelpRunTokens, MaxArgc))

NextHelpRun ==
    \/ AddFrom(HelpRunDecls)
    \/ ValidateFrom({ <<"k">>, <<"-", "-", "n">> }, HelpRunValidators)
    \/ \E h \in HelpRunHandlers : setHelpHandler(h)
    \/ ParseBegin
    \/ ParseToken
    \/ ParseScanDone
    \/ ParseFinalize

SpecHelpRun == InitHelpRun /\ [][NextHelpRun]_vars

\* some token of the input is --help or -h
HelpRequested == \E k \in DOMAIN argv : argv[k] \in HelpTokens

\* parse() called while a help token is in the input and the handler returns
C14_HelpStep ==
    (/\ pc = "idle" /\ call'.op = "parse"
     /\ HelpRequested
     /\ m_helpHandler = "return") =>
        /\ helpCalls' = 1
        /\ helpName' = programName
        /\ pc' = "idle"
        /\ exc' = "none"
        /\ validated' = {}
        /\ m_arguments' = m_arguments

(***************************************************************************)
(* C14: if a token of the input equals --help or -h, parse() invokes the   *)
(* help handler exactly once with the program name (argv[0]) and then      *)
(* returns normally when the handler returns: it raises no                 *)
(* MissingArgumentException for absent required arguments and invokes no   *)
(* validator.                                                              *)
(***************************************************************************)
C14_HelpReturns ==
    /\ []((call.op = "parse" /\ HelpRequested /\ m_helpHandler = "return") =>
            /\ pc = "idle"
            /\ exc = "none"
            /\ helpCalls = 1
            /\ helpName = programName
            /\ validated = {})
    /\ [][C14_HelpStep]_vars

\* parse() returned through the handler although a required argument has no
\* value, a validator would reject a default, and the help token comes last
C14_Witness ==
    /\ ParseReturned
    /\ helpCalls = 1
    /\ helpName = programName
    /\ Len(argv) > 1
    /\ argv[Len(argv)] \in HelpTokens
    /\ \A k \in 1..(Len(argv) - 1) : argv[k] \notin HelpTokens
    /\ \E key \in DOMAIN m_arguments :
         DeclaredRequired(key) /\ holds("monostate", m_arguments[key].parsedValue)
    /\ \E key \in DOMAIN m_arguments :
         /\ m_arguments[key].validator # NoValidator
         /\ RunValidator(m_arguments[key].validator, m_arguments[key].defaultValue) # "none"

(***************************************************************************)
(* SpecValid: arguments with range validators: an option with a default,   *)
(* a positional scalar, a list option and a positional list.               *)
(***************************************************************************)
ValidDecls ==
    { Decl(<< <<"-", "-", "n">> >>, "int", Val("int", 7)),
      Decl(<< <<"k">> >>, "int", Mono),
      Decl(<< <<"-", "-", "l">> >>, "ints", Mono),
      Decl(<< <<"m">> >>, "ints", Mono) }

ValidTokens == { <<"3">>, <<"8">>, <<"-", "-", "l">> }

ValidNames == { <<"-", "-", "n">>, <<"k">>, <<"-", "-", "l">>, <<"m">> }

Validators ==
    { InRange("int", 1, 5), InRange("int", 3, 9), InRange("ints", 1, 5) }

InitValid == InitWith(TokenLists(ValidTokens, MaxArgc))

NextValid ==
    \/ AddFrom(ValidDecls)
    \/ ValidateFrom(ValidNames, Validators)
    \/ ParseBegin
    \/ ParseToken
    \/ ParseScanDone
    \/ ParseFinalize

SpecValid == InitValid /\ [][NextValid]_vars

(***************************************************************************)
(* C15: when several validators are attached to the same argument by       *)
(* chained .validate() calls or repeated setValidator calls, every one of  *)
(* them is enforced: parse() raises if the argument's final value is       *)
(* rejected by any one of the attached validators.                         *)
(***************************************************************************)
C15_AllEnforced ==
    (ParseReturned /\ helpCalls = 0) =>
        \A a \in attached :
            RunValidator(a[2], m_arguments[a[1]].parsedValue) = "none"

\* the input for key can be coerced to its type
Coercible(key) ==
    LET type == m_arguments[key].type
    IN  IF isListType(type) THEN ConvertList(type, RunFor(key)).exc = "none"
        ELSE IF type = "Bool" /\ Last(EventsFor(key)) \in OptionTokensFor(key) THEN TRUE
        ELSE ConvertScalar(type, argv[Last(ValueTokensFor(key))]).exc = "none"

\* the final typed value of key: the coerced input, or the default
FinalValue(key) ==
    IF Received(key) THEN Coerced(key) ELSE m_arguments[key].defaultValue

\* key has a final typed value
HasFinalValue(key) ==
    IF Received(key) THEN Coercible(key) ELSE HasDefault(key)

\* the final loop, on reaching an argument with a validator and a final value
C16_ValidatorStep ==
    pc = "final" =>
        \A key \in todo \ todo' :
            (m_arguments[key].validator # NoValidator /\ HasFinalValue(key)) =>
                IF RunValidator(m_arguments[key].validator, FinalValue(key)) # "none"
                THEN /\ pc' = "idle"
                     /\ exc' = RunValidator(m_arguments[key].validator, FinalValue(key))
                ELSE /\ exc' = "none"
                     /\ key \in validated'
                     /\ SameValue(m_arguments'[key].parsedValue, FinalValue(key))

(***************************************************************************)
(* C16: for every argument with a validator, parse() invokes the validator *)
(* after coercion on the argument's final typed value (the coerced input   *)
(* value, or the default when the argument is absent from the input), and  *)
(* any exception the validator raises propagates out of parse()            *)
(* unchanged; a default that fails its validator makes parse() raise.      *)
(***************************************************************************)
C16_ValidatorOnFinalValue ==
    /\ [](ParseReturned /\ helpCalls = 0 =>
            \A key \in DOMAIN m_arguments :
                (m_arguments[key].validator # NoValidator /\ HasFinalValue(key)) =>
                    /\ key \in validated
                    /\ RunValidator(m_arguments[key].validator, FinalValue(key)) = "none")
    /\ [][C16_ValidatorStep]_vars

\* the types get<T> can be asked for, other than the declared one
OtherTypes(key) == (ScalarTags \cup ListTags) \ { TypeTag(m_arguments[key].type) }

(***************************************************************************)
(* C17: after a successful parse(), get<T>(name) on a declared argument    *)
(* whose declared type is not T raises TypeMismatchException and never     *)
(* returns a value, for every combination of requested type T and          *)
(* declared type (no silent cast and no silent fallback value).            *)
(***************************************************************************)
C17_WrongTypeRaises ==
    (ParseReturned /\ helpCalls = 0) =>
        \A key \in DOMAIN m_arguments : \A T \in OtherTypes(key) :
            get(T, key).exc = "TypeMismatchException"

(***************************************************************************)
(* SpecBool: a bool list and a positional bool, given text.                *)
(***************************************************************************)
BoolDecls ==
    { Decl(<< <<"-", "-", "b">> >>, "bools", Mono),
      Decl(<< <<"b", "b">> >>, "bool", Mono),
      Decl(<< <<"-", "-", "v">> >>, "bool", Mono) }

BoolTokens ==
    { <<"t", "r", "u", "e">>, <<"1">>, <<"f", "a", "l", "s", "e">>, <<"0">>,
      <<"x">>, <<"-", "-", "b">>, <<"-", "-", "v">> }

InitBool == InitWith(TokenLists(BoolTokens, MaxArgc))

NextBool ==
    \/ AddFrom(BoolDecls)
    \/ ParseBegin
    \/ ParseToken
    \/ ParseScanDone
    \/ ParseFinalize

SpecBool == InitBool /\ [][NextBool]_vars

\* the input gives key text to coerce
ReceivedText(key) ==
    IF isListType(m_arguments[key].type) THEN OptionTokensFor(key) # {}
    ELSE ValueTokensFor(key) # {}

\* the texts the input gives key: the run of a list, the last token of a scalar
TextsFor(key) ==
    IF isListType(m_arguments[key].type) THEN RunFor(key)
    ELSE << argv[Last(ValueTokensFor(key))] >>

TrueTexts == { <<"t", "r", "u", "e">>, <<"1">> }

FalseTexts == { <<"f", "a", "l", "s", "e">>, <<"0">> }

\* the final loop, on reaching a bool or a bool list that was given text
C18_BoolStep ==
    pc = "final" =>
        \A key \in todo \ todo' :
            (m_arguments[key].type \in {"Bool", "BoolList"} /\ ReceivedText(key)) =>
                IF \E n \in DOMAIN TextsFor(key) :
                       TextsFor(key)[n] \notin TrueTexts \cup FalseTexts
                THEN pc' = "idle" /\ exc' = "InvalidValueException"
                ELSE /\ exc' = "none"
                     /\ m_arguments'[key].parsedValue.v =
                            IF isListType(m_arguments[key].type)
                            THEN [n \in DOMAIN TextsFor(key) |-> TextsFor(key)[n] \in TrueTexts]
                            ELSE TextsFor(key)[1] \in TrueTexts

(***************************************************************************)
(* C18: text-to-bool coercion (an element of a bool list, or a bool        *)
(* argument that received a text token) maps "true" and "1" to true and    *)
(* "false" and "0" to false, and any other text makes parse() raise        *)
(* InvalidValueException.                                                  *)
(***************************************************************************)
C18_TextToBool == [][C18_BoolStep]_vars

(***************************************************************************)
(* SpecOverflow: int and float arguments, scalar and list, given literals  *)
(* beyond the range of their type.                                         *)
(***************************************************************************)
\* ten to the 39, beyond the range of float and of int
HugePositive == substr(HugeNegative, 1)

\* beyond the range of a 32-bit int, within that of float
BigInt == [k \in 1..10 |-> "9"]

OverflowDecls ==
    { Decl(<< <<"k">> >>, "int", Mono),
      Decl(<< <<"-", "-", "l">> >>, "ints", Mono),
      Decl(<< <<"x">> >>, "float", Mono),
      Decl(<< <<"-", "-", "y">> >>, "floats", Mono) }

OverflowTokens ==
    { BigInt, HugePositive, <<"1">>, <<"-", "-", "l">>, <<"-", "-", "y">> }

InitOverflow == InitWith(TokenLists(OverflowTokens, MaxArgc))

NextOverflow ==
    \/ AddFrom(OverflowDecls)
    \/ ParseBegin
    \/ ParseToken
    \/ ParseScanDone
    \/ ParseFinalize

SpecOverflow == InitOverflow /\ [][NextOverflow]_vars

\* the scalar type of an argument's values
ElementType(type) ==
    CASE type \in {"Int", "IntList"}     -> "Int"
      [] type \in {"Float", "FloatList"} -> "Float"
      [] type \in {"Bool", "BoolList"}   -> "Bool"
      [] OTHER                           -> "String"

\* what std::stoi or std::stof makes of a text for a numeric argument
TextStatus(type, text) ==
    IF ElementType(type) = "Int" THEN stoi(text).status ELSE stof(text).status

\* the first text of key that does not convert is out of range
FirstFailureOverflows(key, n) ==
    /\ n \in DOMAIN TextsFor(key)
    /\ TextStatus(m_arguments[key].type, TextsFor(key)[n]) = "out_of_range"
    /\ \A m \in 1..(n - 1) : TextStatus(m_arguments[key].type, TextsFor(key)[m]) = "ok"

\* the final loop, on reaching a numeric argument with an out-of-range
\* literal, raises what it raises for that literal given to a scalar
C19_OverflowStep ==
    pc = "final" =>
        \A key \in todo \ todo' :
            (/\ ElementType(m_arguments[key].type) \in {"Int", "Float"}
             /\ ReceivedText(key)) =>
                \A n \in DOMAIN TextsFor(key) :
                    FirstFailureOverflows(key, n) =>
                        /\ pc' = "idle"
                        /\ exc' = ConvertScalar(ElementType(m_arguments[key].type),
                                                TextsFor(key)[n]).exc

(***************************************************************************)
(* C19: numeric overflow during coercion is reported with one consistent   *)
(* exception kind: an int or float token whose value is out of the         *)
(* representable range makes parse() raise the same exception type         *)
(* whether the argument is a scalar or a list.                             *)
(***************************************************************************)
C19_OverflowSameKind == [][C19_OverflowStep]_vars

(***************************************************************************)
(* SpecSingle: positionals declared under a single name, with and without  *)
(* a default.                                                              *)
(***************************************************************************)
SingleDecls ==
    { Decl(<< <<"f">> >>, "string", Val("string", <<"d">>)),
      Decl(<< <<"g">> >>, "string", Mono),
      Decl(<< <<"k">> >>, "int", Val("int", 7)),
      Decl(<< <<"b", "b">> >>, "bool", Mono),
      Decl(<< <<"-", "-", "v">> >>, "bool", Mono) }

SingleTokens == { <<"a">>, <<"1">>, <<"-", "-", "v">> }

InitSingle == InitWith(TokenLists(SingleTokens, MaxArgc))

NextSingle ==
    \/ AddFrom(SingleDecls)
    \/ ParseBegin
    \/ ParseToken
    \/ ParseScanDone
    \/ ParseFinalize

SpecSingle == InitSingle /\ [][NextSingle]_vars

\* add() called with one name that has no leading dash
SinglePositionalCall ==
    /\ IsAddStep
    /\ Len(call'.names) = 1
    /\ ~startsWith(call'.names[1], <<"-">>)

\* a positional registered under a single name
SinglePositional(key) ==
    m_arguments[key].positional /\ Len(m_arguments[key].names) = 1

\* add() called with one name that has no leading dash, and a default
C20_DefaultStep ==
    (SinglePositionalCall /\ call'.dflt.tag # "monostate") =>
        /\ exc' # "none"
        /\ RegistryKept

\* every positional registered under a single name is required
C20_SingleRequired ==
    \A key \in DOMAIN m_arguments : SinglePositional(key) => m_arguments[key].required

C20_AcceptStep ==
    (/\ SinglePositionalCall
     /\ call'.names[1] # <<>>
     /\ call'.names[1] \notin HelpNames
     /\ \A key \in DOMAIN m_arguments : call'.names[1] \notin AliasesOf(key)) =>
        /\ exc' = "none"
        /\ call'.names[1] \in DOMAIN m_arguments'
        /\ m_arguments'[call'.names[1]].positional
        /\ SameValue(m_arguments'[call'.names[1]].defaultValue, call'.dflt)
        /\ m_arguments'[call'.names[1]].required =
               (call'.T # "bool" /\ call'.dflt.tag = "monostate")
        /\ m_positionalOrder' = Append(m_positionalOrder, call'.names[1])

AliasDecls ==
    { Decl(<< <<"-", "c">>, <<"-", "-", "c", "n">> >>, "int", Mono),
      Decl(<< <<"-", "-", "v">>, <<"-", "w">> >>, "bool", Val("bool", FALSE)),
      Decl(<< <<"f">>, <<"f", "f">> >>, "string", Val("string", <<"d">>)) }

AliasTokens ==
    { <<"-", "c">>, <<"-", "-", "c", "n">>, <<"-", "w">>, <<"1">>, <<"3">> }

InitAlias == InitWith(TokenLists(AliasTokens, MaxArgc))

NextAlias ==
    \/ AddFrom(AliasDecls)
    \/ ParseBegin
    \/ ParseToken
    \/ ParseScanDone
    \/ ParseFinalize

SpecAlias == InitAlias /\ [][NextAlias]_vars

\* the aliases of key as a caller may write them: bare, and with the dashes
\* of their declaration
AliasForms(key) ==
    LET arg == m_arguments[key]
    IN  { arg.names[k] : k \in DOMAIN arg.names }
        \cup { <<"-", "-">> \o arg.longForms[k] : k \in DOMAIN arg.longForms }
        \cup { <<"-">> \o arg.shortForms[k] : k \in DOMAIN arg.shortForms }

(***************************************************************************)
(* C21: for an argument declared with several aliases, a value supplied    *)
(* through any one of its alias tokens is returned by get under every      *)
(* alias of that argument, and get and has accept each alias written with  *)
(* or without its leading dashes.                                          *)
(***************************************************************************)
C21_AliasesAgree ==
    pc = "idle" =>
        \A key \in DOMAIN m_arguments : \A name \in AliasForms(key) :
            LET T == TypeTag(m_arguments[key].type)
            IN  /\ get(T, name).exc # "UnknownArgumentException"
                /\ get(T, name) = get(T, key)
                /\ has(name) = ~holds("monostate", m_arguments[key].parsedValue)
                /\ (ParseReturned /\ helpCalls = 0 /\ Received(key)) =>
                      /\ get(T, name).exc = "none"
                      /\ SameValue(get(T, name).value, Coerced(key))
                      /\ has(name)

\* an int supplied through its second alias reads back under the first, bare
\* and dashed
C21_Witness ==
    /\ ParseReturned
    /\ helpCalls = 0
    /\ Len(argv) = 2
    /\ argv[1] = <<"-", "-", "c", "n">>
    /\ argv[2] = <<"3">>
    /\ <<"c">> \in DOMAIN m_arguments
    /\ SameValue(get("int", <<"c">>).value, Val("int", 3))
    /\ SameValue(get("int", <<"-", "c">>).value, Val("int", 3))
    /\ has(<<"c", "n">>)

(***************************************************************************)
(* SpecSeparator: command lines with a bare "--" token.                    *)
(***************************************************************************)
SeparatorDecls ==
    { Decl(<< <<"f">> >>, "string", Mono),
      Decl(<< <<"g">> >>, "string", Val("string", <<"d">>)),
      Decl(<< <<"-", "-", "v">> >>, "bool", Val("bool", FALSE)) }

Separator == <<"-", "-">>

SeparatorTokens == { Separator, <<"-", "-", "v">>, <<"-", "x">>, <<"a">> }

InitSeparator == InitWith(TokenLists(SeparatorTokens, MaxArgc))

NextSeparator ==
    \/ AddFrom(SeparatorDecls)
    \/ ParseBegin
    \/ ParseToken
    \/ ParseScanDone
    \/ ParseFinalize

SpecSeparator == InitSeparator /\ [][NextSeparator]_vars

\* the index of the first bare "--" among the first n tokens, 0 if none
FirstSeparator(n) ==
    IF \E j \in 1..n : argv[j] = Separator
    THEN CHOOSE j \in 1..n : argv[j] = Separator /\ \A k \in 1..(j - 1) : argv[k] # Separator
    ELSE 0

\* the rank, among the positional values, of a token n that follows the
\* first bare "--"
RankAfterSeparator(n) ==
    PositionalTokensUpTo(FirstSeparator(n) - 1) + (n - FirstSeparator(n))

\* the loop body on the first bare "--" and on the tokens that follow it
C22_SeparatorStep ==
    (pc = "loop" /\ i <= Len(argv) /\ FirstSeparator(i) # 0) =>
        IF FirstSeparator(i) = i
        THEN /\ pc' = "loop"
             /\ exc' = "none"
             /\ m_arguments' = m_arguments
        ELSE IF RankAfterSeparator(i) <= Len(DeclaredPositionals)
        THEN /\ pc' = "loop"
             /\ exc' = "none"
             /\ SameValue(m_arguments'[DeclaredPositionals[RankAfterSeparator(i)]].parsedValue,
                          Val("string", argv[i]))
             /\ OthersKeep(DeclaredPositionals[RankAfterSeparator(i)])
        ELSE /\ pc' = "idle"
             /\ exc' = "UnexpectedPositionalArgumentException"

(***************************************************************************)
(* C22: after a bare "--" token, every remaining token is treated as a     *)
(* positional value even if it begins with "-" or "--", and the "--"       *)
(* token itself is not reported as an unknown argument.                    *)
(***************************************************************************)
C22_SeparatorEndsOptions == [][C22_SeparatorStep]_vars

(***************************************************************************)
(* SpecLiteral: numeric arguments given texts that are numeric literals    *)
(* only in part.                                                           *)
(***************************************************************************)
LiteralDecls ==
    { Decl(<< <<"k">> >>, "int", Mono),
      Decl(<< <<"-", "-", "l">> >>, "ints", Mono),
      Decl(<< <<"x">> >>, "float", Mono),
      Decl(<< <<"-", "-", "y">> >>, "floats", Mono) }

LiteralTokens ==
    { <<"1", ".", "5">>, <<"5", "x">>, <<"7">>, <<"-", "-", "l">>, <<"-", "-", "y">> }

InitLiteral == InitWith(TokenLists(LiteralTokens, MaxArgc))

NextLiteral ==
    \/ AddFrom(LiteralDecls)
    \/ ParseBegin
    \/ ParseToken
    \/ ParseScanDone
    \/ ParseFinalize

SpecLiteral == InitLiteral /\ [][NextLiteral]_vars

\* position of the first character after an optional sign at p
AfterSign(text, p) ==
    IF p <= Len(text) /\ text[p] \in {"+", "-"} THEN p + 1 ELSE p

\* the whole text is an optional sign and one or more decimal digits
IsIntLiteral(text) ==
    /\ DigitsEnd(text, AfterSign(text, 1)) = Len(text) + 1
    /\ AfterSign(text, 1) <= Len(text)

\* position after the fraction ".ddd" at p, p itself if none starts there
AfterFraction(text, p) ==
    IF p <= Len(text) /\ text[p] = "." THEN DigitsEnd(text, p + 1) ELSE p

\* position after the exponent "e[sign]ddd" at p, p itself if none is there
AfterExponent(text, p) ==
    IF /\ p <= Len(text)
       /\ text[p] \in {"e", "E"}
       /\ DigitsEnd(text, AfterSign(text, p + 1)) > AfterSign(text, p + 1)
    THEN DigitsEnd(text, AfterSign(text, p + 1))
    ELSE p

\* the whole text is an optional sign, decimal digits with an optional
\* point, at least one digit, and an optional exponent
IsFloatLiteral(text) ==
    /\ AfterExponent(text, AfterFraction(text, DigitsEnd(text, AfterSign(text, 1))))
           = Len(text) + 1
    /\ \E p \in AfterSign(text, 1)..Len(text) :
          /\ IsDigit(text[p])
          /\ \A q \in AfterSign(text, 1)..(p - 1) : text[q] = "."

\* the text is a literal of the element type of a numeric argument
IsLiteral(type, text) ==
    IF ElementType(type) = "Int" THEN IsIntLiteral(text) ELSE IsFloatLiteral(text)

\* the final loop, on reaching a numeric argument one of whose texts is not
\* a literal of its type
C23_LiteralStep ==
    pc = "final" =>
        \A key \in todo \ todo' :
            (/\ ElementType(m_arguments[key].type) \in {"Int", "Float"}
             /\ ReceivedText(key)
             /\ \E n \in DOMAIN TextsFor(key) :
                   ~IsLiteral(m_arguments[key].type, TextsFor(key)[n])) =>
                /\ pc' = "idle"
                /\ exc' = "InvalidValueException"

(***************************************************************************)
(* C23: parse() raises InvalidValueException whenever the text supplied    *)
(* for an int or float argument (scalar or list element) is not, in its    *)
(* entirety, a well-formed numeric literal of that type; this covers text  *)
(* with a numeric prefix followed by other characters and a fractional     *)
(* literal supplied to an int argument.                                    *)
(***************************************************************************)
C23_WholeTextLiteral == [][C23_LiteralStep]_vars

(***************************************************************************)
(* SpecStyle: option tokens written in the dash style of their alias and   *)
(* in the other one.                                                       *)
(***************************************************************************)
StyleDecls ==
    { Decl(<< <<"-", "c">> >>, "int", Val("int", 7)),
      Decl(<< <<"-", "-", "d", "d">> >>, "int", Val("int", 7)),
      Decl(<< <<"f">> >>, "string", Val("string", <<"d">>)) }

StyleTokens ==
    { <<"-", "c">>, <<"-", "-", "c">>, <<"-", "-", "d", "d">>, <<"-", "d", "d">>,
      <<"-", "-", "f">>, <<"1">> }

InitStyle == InitWith(TokenLists(StyleTokens, MaxArgc))

NextStyle ==
    \/ AddFrom(StyleDecls)
    \/ ParseBegin
    \/ ParseToken
    \/ ParseScanDone
    \/ ParseFinalize

SpecStyle == InitStyle /\ [][NextStyle]_vars

\* the options with an alias declared in the dash style of option token t
\* and equal to its text (longForms also holds the names of a positional,
\* which were declared without dashes)
StyleOwners(t) ==
    { key \in DOMAIN m_arguments :
        LET forms == IF startsWith(t, <<"-", "-">>) THEN m_arguments[key].longForms
                     ELSE m_arguments[key].shortForms
        IN  /\ ~m_arguments[key].positional
            /\ \E k \in DOMAIN forms : forms[k] = DashStripped(t) }

\* the loop body on an option token
C24_StyleStep ==
    (pc = "loop" /\ i <= Len(argv) /\ IsOptionToken(argv[i])) =>
        IF StyleOwners(argv[i]) = {}
        THEN /\ pc' = "idle"
             /\ exc' = "UnknownArgumentException"
             /\ m_arguments' = m_arguments
        ELSE /\ pc' = "loop"
             /\ exc' = "none"
             /\ currentKey' \in StyleOwners(argv[i]) \cup { NoKey }

(***************************************************************************)
(* C24: an option token resolves only to an alias declared with the same   *)
(* dash style: a "--name" token matches only aliases declared as long      *)
(* forms and a "-n" token only aliases declared as short forms; a token    *)
(* whose text matches only an alias of the other style, or only the name   *)
(* of a positional argument, makes parse() raise UnknownArgumentException. *)
(***************************************************************************)
C24_SameDashStyle == [][C24_StyleStep]_vars

(***************************************************************************)
(* Errors of the token scan: an option token that resolves to no argument  *)
(* and a positional token beyond the declared positionals.                 *)
(***************************************************************************)
\* token n is an unknown option or an unexpected positional
OffendingToken(n) ==
    \/ IsOptionToken(argv[n]) /\ AliasOwners(argv[n]) = {}
    \/ IsPositionalToken(n) /\ PositionalTokensUpTo(n) > Len(DeclaredPositionals)

\* the exception for an offending token n
ScanError(n) ==
    IF IsOptionToken(argv[n]) THEN "UnknownArgumentException"
    ELSE "UnexpectedPositionalArgumentException"

\* the index of the first help token
FirstHelp == CHOOSE k \in DOMAIN argv :
                 argv[k] \in HelpTokens /\ \A j \in 1..(k - 1) : argv[j] \notin HelpTokens

\* an offending token precedes the first help token
OffendingBeforeHelp ==
    HelpRequested /\ \E j \in 1..(FirstHelp - 1) : OffendingToken(j)

(***************************************************************************)
(* C25: parse() consumes tokens strictly left to right in a single pass    *)
(* and the help handler is invoked only when the help token itself is      *)
(* reached: if a token that precedes the first --help or -h is an unknown  *)
(* option or an unexpected positional, parse() raises that error and the   *)
(* help handler is not invoked.                                            *)
(***************************************************************************)
C25_HelpWhenReached ==
    (call.op = "parse" /\ pc \in {"idle", "exited"} /\ OffendingBeforeHelp) =>
        /\ pc = "idle"
        /\ exc \in {"UnknownArgumentException", "UnexpectedPositionalArgumentException"}
        /\ helpCalls = 0

\* parse() called: the help token is looked for in the whole input first
C25_BeginStep ==
    (pc = "idle" /\ call'.op = "parse") =>
        IF HelpRequested
        THEN /\ helpCalls' = 1
             /\ helpName' = programName
             /\ pc' \in {"idle", "exited"}
             /\ exc' \in {"none", "HandlerException"}
             /\ m_arguments' = m_arguments
        ELSE /\ helpCalls' = 0
             /\ pc' = "loop"
             /\ i' = 1

\* the loop body: one token, the next one in input order, or the error of
\* the token at hand
C25_ScanStep ==
    (pc = "loop" /\ i <= Len(argv)) =>
        /\ ~HelpRequested
        /\ helpCalls' = 0
        /\ IF OffendingToken(i)
           THEN pc' = "idle" /\ exc' = ScanError(i) /\ i' = i
           ELSE pc' = "loop" /\ exc' = "none" /\ i' = i + 1

(***************************************************************************)
(* C25, as the code has it: parse() first looks for a help token in the    *)
(* whole input, before it processes any token; if some token is --help or  *)
(* -h the help handler is invoked and no token is processed, so an unknown *)
(* option or an unexpected positional that precedes the help token is not  *)
(* reported.  Only an input without a help token is consumed, strictly     *)
(* left to right in a single pass, up to its first unknown option or       *)
(* unexpected positional.                                                  *)
(***************************************************************************)
C25_HelpScannedFirst ==
    /\ [][C25_BeginStep]_vars
    /\ [][C25_ScanStep]_vars
    /\ []((call.op = "parse" /\ HelpRequested) =>
            /\ pc \in {"idle", "exited"}
            /\ helpCalls = 1
            /\ exc \in {"none", "HandlerException"})

\* the handler ran and parse() returned although an unknown option precedes
\* the help token
C25_Witness ==
    /\ call.op = "parse"
    /\ pc = "idle"
    /\ exc = "none"
    /\ helpCalls = 1
    /\ m_helpHandler = "return"
    /\ Len(argv) = 2
    /\ argv[2] \in HelpTokens
    /\ OffendingBeforeHelp
    /\ OffendingToken(1)
    /\ IsOptionToken(argv[1])

\* no value is stored for key, or parse() returned on an input with no token
\* for it
NothingParsed(key) ==
    \/ holds("monostate", m_arguments[key].parsedValue)
    \/ ParseReturned /\ EventsFor(key) = {}

(***************************************************************************)
(* C26: get returns an argument's declared default whenever no value has   *)
(* been parsed for it, including when parse() has not been called yet,     *)
(* for every argument declared with a default (any of the eight types);    *)
(* the value get returns for such an argument is the same before parse()   *)
(* and after a parse() that supplies no token for it.                      *)
(***************************************************************************)
C26_DefaultWithoutParse ==
    pc = "idle" =>
        \A key \in DOMAIN m_arguments :
            (HasDefault(key) /\ NothingParsed(key)) =>
                /\ GetDeclared(key).exc = "none"
                /\ SameValue(GetDeclared(key).value, m_arguments[key].defaultValue)

\* a stored value is absent or of the argument's declared type
OfDeclaredType(key, value) ==
    \/ holds("monostate", value)
    \/ holds(TypeTag(m_arguments[key].type), value)

(***************************************************************************)
(* C27: in every state reachable by any sequence of add(), setValidator()  *)
(* and successfully completed parse() calls, each argument's stored        *)
(* default value and parsed value is either absent or of exactly the       *)
(* argument's declared type: raw text is never left in a non-string        *)
(* argument and a scalar is never stored in a list-typed argument          *)
(* (including list-typed arguments declared as positionals).  Stated for   *)
(* the defaults whenever no call is running, and for the parsed values     *)
(* when parse() has returned: parse() stores anew every value the input    *)
(* supplies, so the calls before it do not matter.                         *)
(***************************************************************************)
C27_StoredValuesTyped ==
    pc = "idle" =>
        \A key \in DOMAIN m_arguments :
            /\ OfDeclaredType(key, m_arguments[key].defaultValue)
            /\ ParseReturned => OfDeclaredType(key, m_arguments[key].parsedValue)

\* add() raised in this step
AddRaised ==
    /\ IsAddStep
    /\ exc' \in {"InvalidArgumentException", "ReservedArgumentException",
                 "DuplicateArgumentException"}

\* an add() that raises writes nothing, and every alias resolves as before
C28_RaisedStep ==
    AddRaised =>
        /\ RegistryKept
        /\ DOMAIN m_arguments' = DOMAIN m_arguments
        /\ DOMAIN m_nameLookup' = DOMAIN m_nameLookup
        /\ Len(m_positionalOrder') = Len(m_positionalOrder)
        /\ \A key \in DOMAIN m_arguments : \A name \in AliasForms(key) :
              /\ normalizeName(name) \in DOMAIN m_nameLookup =>
                    /\ normalizeName(name) \in DOMAIN m_nameLookup'
                    /\ m_nameLookup'[normalizeName(name)] = m_nameLookup[normalizeName(name)]
              /\ m_arguments'[key] = m_arguments[key]

(***************************************************************************)
(* C28: an add() call that raises (invalid, reserved or duplicate name)    *)
(* leaves the registry exactly as it was: no argument entry, no            *)
(* lookup-table key and no positional-order slot is added or changed, so   *)
(* every previously declared argument still resolves and parses as before. *)
(***************************************************************************)
C28_RaisingAddKeepsRegistry == [][C28_RaisedStep]_vars

\* add() raised for a duplicate of the one registered argument, whose entry
\* and lookup keys are as that argument's add() left them
C28_Witness ==
    /\ pc = "idle"
    /\ call.op = "add"
    /\ exc = "DuplicateArgumentException"
    /\ Len(declared) = 1
    /\ DOMAIN m_arguments = { declared[1] }
    /\ \A name \in DOMAIN m_nameLookup : m_nameLookup[name] = declared[1]
    /\ \E k \in DOMAIN call.names :
          normalizeName(call.names[k]) \in AliasesOf(declared[1])

(***************************************************************************)
(* SpecPending: scalar options whose token is followed by another option   *)
(* or by the end of the input.                                             *)
(***************************************************************************)
PendingDecls ==
    { Decl(<< <<"-", "r">> >>, "string", Mono),
      Decl(<< <<"-", "-", "n">> >>, "int", Val("int", 7)),
      Decl(<< <<"-", "-", "v">> >>, "bool", Val("bool", FALSE)),
      Decl(<< <<"f">> >>, "string", Val("string", <<"d">>)) }

PendingTokens == { <<"-", "r">>, <<"-", "-", "n">>, <<"-", "-", "v">>, <<"3">> }

InitPending == InitWith(TokenLists(PendingTokens, MaxArgc))

NextPending ==
    \/ AddFrom(PendingDecls)
    \/ ParseBegin
    \/ ParseToken
    \/ ParseScanDone
    \/ ParseFinalize

SpecPending == InitPending /\ [][NextPending]_vars

\* key is a scalar option other than a flag
ScalarOption(key) ==
    /\ ~m_arguments[key].positional
    /\ ~isListType(m_arguments[key].type)
    /\ m_arguments[key].type # "Bool"

\* token n is followed by an option token or is the last token
NoValueFollows(n) == n = Len(argv) \/ IsOptionToken(argv[n + 1])

\* key's token is in the input, each time with no value after it
GivenWithoutValue(key) ==
    /\ ScalarOption(key)
    /\ OptionTokensFor(key) # {}
    /\ \A n \in OptionTokensFor(key) : NoValueFollows(n)

\* the loop body on the token of a scalar option that no value follows: no
\* error, nothing stored
C29_TokenStep ==
    (/\ pc = "loop" /\ i <= Len(argv)
     /\ IsOptionToken(argv[i]) /\ AliasOwners(argv[i]) # {}
     /\ ScalarOption(Owner(argv[i]))
     /\ NoValueFollows(i)) =>
        /\ pc' = "loop"
        /\ exc' = "none"
        /\ m_arguments' = m_arguments

\* the final loop on an option given without a value: what it does for an
\* option that is not in the input
C29_FinalStep ==
    (pc = "final" /\ call.op = "parse") =>
        \A key \in todo \ todo' :
            (GivenWithoutValue(key) /\ holds("monostate", m_arguments[key].parsedValue)) =>
                IF DeclaredRequired(key)
                THEN /\ pc' = "idle"
                     /\ exc' = "MissingArgumentException"
                ELSE /\ exc' = "none"
                     /\ SameValue(m_arguments'[key].parsedValue, m_arguments[key].defaultValue)

ScanDecls ==
    { Decl(<< <<"k">> >>, "int", Mono),
      Decl(<< <<"-", "-", "n">> >>, "int", Val("int", 7)) }

ScanTokens == { <<"a">>, <<"3">>, <<"-", "-", "n">>, <<"-", "-", "z">> }

ScanValidators == { InRange("int", 1, 5) }

InitScan == InitWith(TokenLists(ScanTokens, MaxArgc))

NextScan ==
    \/ AddFrom(ScanDecls)
    \/ ValidateFrom({ <<"k">>, <<"-", "-", "n">> }, ScanValidators)
    \/ ParseBegin
    \/ ParseToken
    \/ ParseScanDone
    \/ ParseFinalize

SpecScan == InitScan /\ [][NextScan]_vars

\* the input has an offending token
SomeOffending == \E n \in DOMAIN argv : OffendingToken(n)

\* the index of the leftmost offending token
Leftmost ==
    CHOOSE n \in DOMAIN argv : OffendingToken(n) /\ \A j \in 1..(n - 1) : ~OffendingToken(j)

(***************************************************************************)
(* C30: errors detected while scanning tokens take precedence over         *)
(* end-of-pass errors: if the input (without a help token) contains an     *)
(* unknown option or an unexpected positional, parse() raises that error   *)
(* for the leftmost offending token, never a MissingArgument, coercion or  *)
(* validator error, and no validator is invoked before it is raised.       *)
(***************************************************************************)
C30_ScanErrorsFirst ==
    (call.op = "parse" /\ ~HelpRequested /\ SomeOffending) =>
        /\ validated = {}
        /\ \/ pc = "loop" /\ i <= Leftmost /\ exc = "none"
           \/ pc = "idle" /\ i = Leftmost /\ exc = ScanError(Leftmost)

\* an unexpected positional was raised although the token before it is no
\* int for the positional it went to and a validator is attached
C30_Witness ==
    /\ call.op = "parse"
    /\ pc = "idle"
    /\ exc = "UnexpectedPositionalArgumentException"
    /\ Len(argv) = 2
    /\ argv[1] = <<"a">>
    /\ Leftmost = 2
    /\ DOMAIN m_arguments = { <<"k">>, <<"n">> }
    /\ attached # {}
    /\ validated = {}

=============================================================================
